------------------------------ MODULE Spec2Model ------------------------------
(***************************************************************************)
(* A model of mapmakers/convert_static_trees.py: the tree type catalog     *)
(* (TreeTypeLoader), the name classifier (detect_tree_type), the transform *)
(* arithmetic, the scene walker (I3DTreeExtractor.find_trees /             *)
(* remove_trees) and the serializer (generate_treeplant_xml).              *)
(*                                                                         *)
(* Text is modelled as a sequence of one-character strings, so that        *)
(* lower(), upper(), substring search, the regular expressions and the     *)
(* path operations are computed on characters as the Python code does.     *)
(***************************************************************************)
EXTENDS Integers, Sequences, FiniteSets, TLC

VARIABLES
    pc,           \* which operation of the program runs next
    tree_types,   \* TreeTypeLoader.tree_types: uppercased name -> TreeTypeDesc
    loadLog,      \* the load calls made so far (history, for the properties)
    loadRet,      \* what the last load call handed back (Returned / Raise)
    dName,        \* detect_tree_type: the name passed in
    dResult,      \* detect_tree_type: the value returned
    qName,        \* a catalog lookup: the type name passed in
    qFile,        \* a catalog lookup: the filename passed in
    qResult,      \* a catalog lookup: the operation and the value returned
    tree_types_loaded,  \* main: whether the last load call loaded a type
    nodes,        \* the scene elements of the i3d, in document order
    childrenOf,         \* element -> its child elements, in order (0 is <Scene>)
    parent_name,  \* main: args.tree_parent, the subtree filter
    file_elems,   \* the <File> elements of the i3d, in document order
    file_id_to_tree_type,  \* I3DTreeExtractor.file_id_to_tree_type
    trees,        \* I3DTreeExtractor.trees
    tree_parents, \* I3DTreeExtractor.tree_parents
    visited,      \* the elements scan_node was called on, in call order
    findRet,      \* what find_trees handed back (the number of trees)
    lines,        \* generate_treeplant_xml: the <tree> records written
    removed       \* what remove_trees returned

catalogVars == <<tree_types, loadLog, loadRet, tree_types_loaded>>
detectVars == <<dName, dResult>>
lookupVars == <<qName, qFile, qResult>>
sceneVars == <<nodes, childrenOf, parent_name,
               file_elems, file_id_to_tree_type, trees, tree_parents, visited,
               findRet,
               lines, removed>>

vars == <<pc, catalogVars, detectVars, lookupVars, sceneVars>>

-----------------------------------------------------------------------------
(* Python values *)

\* None, where the code holds an Optional text (no character is longer than
\* one letter, so no text equals it).
None == <<"<None>">>

\* What a call hands back: its return value, or the exception it let escape.
Returned(v) == [raised |-> "", value |-> v]
Raise(exc) == [raised |-> exc, value |-> 0]

\* Python truthiness of an Optional[str]: None and "" are false.
Truthy(s) == s # None /\ s # <<>>

-----------------------------------------------------------------------------
(* A value computed once and used under a name: With(e, LAMBDA x : f(x)) *)

With(value, Body(_)) == Body(value)

-----------------------------------------------------------------------------
(* str methods *)

LowerLetters == <<"a", "b", "c", "d", "e", "f", "g", "h", "i", "j", "k", "l", "m", "n", "o", "p", "q", "r", "s", "t", "u", "v", "w", "x", "y", "z">>
UpperLetters == <<"A", "B", "C", "D", "E", "F", "G", "H", "I", "J", "K", "L", "M", "N", "O", "P", "Q", "R", "S", "T", "U", "V", "W", "X", "Y", "Z">>
Digits == <<"0", "1", "2", "3", "4", "5", "6", "7", "8", "9">>

IndexIn(c, alphabet) ==
    IF \E i \in 1..Len(alphabet) : alphabet[i] = c
    THEN CHOOSE i \in 1..Len(alphabet) : alphabet[i] = c
    ELSE 0

LowerChar(c) ==
    LET i == IndexIn(c, UpperLetters) IN IF i = 0 THEN c ELSE LowerLetters[i]

UpperChar(c) ==
    LET i == IndexIn(c, LowerLetters) IN IF i = 0 THEN c ELSE UpperLetters[i]

\* str.lower()
Lower(s) == [i \in 1..Len(s) |-> LowerChar(s[i])]

\* str.upper()
Upper(s) == [i \in 1..Len(s) |-> UpperChar(s[i])]

\* str.startswith(p)
StartsWith(s, p) == Len(s) >= Len(p) /\ SubSeq(s, 1, Len(p)) = p

\* str.endswith(p)
EndsWith(s, p) ==
    Len(s) >= Len(p) /\ SubSeq(s, Len(s) - Len(p) + 1, Len(s)) = p

\* p occurs in s at offset i (0-based)
OccursAt(s, p, i) ==
    i + Len(p) <= Len(s) /\ SubSeq(s, i + 1, i + Len(p)) = p

\* p in s
Contains(s, p) == \E i \in 0..Len(s) : OccursAt(s, p, i)

\* s[n:]
DropFirst(s, n) == SubSeq(s, n + 1, Len(s))

\* str.replace(c, '') for a one-character c
RECURSIVE RemoveChar(_, _)
RemoveChar(s, c) ==
    IF s = <<>> THEN <<>>
    ELSE IF Head(s) = c THEN RemoveChar(Tail(s), c)
    ELSE <<Head(s)>> \o RemoveChar(Tail(s), c)

IsDigit(c) == IndexIn(c, Digits) # 0

\* int() of a run of decimal digits
RECURSIVE IntOf(_)
IntOf(ds) ==
    IF ds = <<>> THEN 0
    ELSE 10 * IntOf(SubSeq(ds, 1, Len(ds) - 1)) + (IndexIn(ds[Len(ds)], Digits) - 1)

\* The longest run of digits of s that starts at offset i (0-based)
RECURSIVE DigitRun(_, _)
DigitRun(s, i) ==
    IF i < Len(s) /\ IsDigit(s[i + 1]) THEN <<s[i + 1]>> \o DigitRun(s, i + 1)
    ELSE <<>>

\* re.search(word + r'[_]?(\d+)', s): the digits captured by the leftmost
\* match, or None. At an offset the optional '_' is taken when digits follow
\* it, and is skipped otherwise (then digits must follow the word directly).
NumberAfterAt(s, word, i) ==
    LET j == i + Len(word)
        withUnderscore ==
            IF j < Len(s) /\ s[j + 1] = "_" THEN DigitRun(s, j + 1) ELSE <<>>
    IN  IF ~OccursAt(s, word, i) THEN <<>>
        ELSE IF withUnderscore # <<>> THEN withUnderscore
        ELSE DigitRun(s, j)

NumberAfter(s, word) ==
    LET hits == {i \in 0..Len(s) : NumberAfterAt(s, word, i) # <<>>}
    IN  IF hits = {} THEN None
        ELSE NumberAfterAt(s, word, CHOOSE i \in hits : \A k \in hits : i <= k)

-----------------------------------------------------------------------------
(* pathlib.Path, on POSIX text paths without '.', '..' or doubled slashes *)

\* the position of the last '/' of p (0 when there is none)
LastSlash(p) ==
    LET at == {i \in 1..Len(p) : p[i] = "/"}
    IN  IF at = {} THEN 0 ELSE CHOOSE i \in at : \A k \in at : k <= i

\* Path(p).name
PathName(p) == DropFirst(p, LastSlash(p))

\* Path(p).stem: the name without its last suffix; a name that starts or
\* ends with its only dot has no suffix.
Stem(p) ==
    LET nm == PathName(p)
        dots == {i \in 1..Len(nm) : nm[i] = "."}
        i == IF dots = {} THEN 0 ELSE CHOOSE d \in dots : \A k \in dots : k <= d
    IN  IF 1 < i /\ i < Len(nm) THEN SubSeq(nm, 1, i - 1) ELSE nm

\* Path(p).parent
PathParent(p) ==
    IF LastSlash(p) = 0 THEN <<".">> ELSE SubSeq(p, 1, LastSlash(p) - 1)

\* base / rel
PathJoin(base, rel) ==
    IF rel = <<>> THEN base
    ELSE IF rel[1] = "/" THEN rel
    ELSE IF base = <<".">> THEN rel
    ELSE base \o <<"/">> \o rel

-----------------------------------------------------------------------------
(* xml.etree.ElementTree: an element is [tag, attrs, kids] *)

NoAttrs == [a \in {} |-> <<>>]

Elem(tag, attrs, kids) == [tag |-> tag, attrs |-> attrs, kids |-> kids]

\* What find() returns when nothing matches.
NoElem == Elem("<none>", NoAttrs, <<>>)

\* elem.get(a, default)
Attr(e, a, default) == IF a \in DOMAIN e.attrs THEN e.attrs[a] ELSE default

\* elem.findall(tag): the direct children with that tag, in document order
FindAll(e, tag) == SelectSeq(e.kids, LAMBDA k : k.tag = tag)

\* elem.find('.//' + tag) over the siblings kids: the first descendant with
\* that tag in document order (the element itself is not a candidate).
RECURSIVE FindFirst(_, _)
FindFirst(kids, tag) ==
    IF kids = <<>> THEN NoElem
    ELSE IF Head(kids).tag = tag THEN Head(kids)
    ELSE LET inner == FindFirst(Head(kids).kids, tag)
         IN  IF inner.tag # NoElem.tag THEN inner ELSE FindFirst(Tail(kids), tag)

-----------------------------------------------------------------------------
(* The files the loader can be pointed at.  A file is [path, ok, root]:     *)
(* ok says whether ET.parse accepts its text, root is the element tree of  *)
(* the text (for a malformed file: of the part before the error, which     *)
(* ET.parse never hands out).                                              *)

Stage(filename) == Elem("stage", [filename |-> filename], <<>>)
Variation(filename, name) ==
    Elem("variation", [filename |-> filename, name |-> name], <<>>)
StageOf(variations) == Elem("stage", NoAttrs, variations)
TreeType(name, stages) == Elem("treeType", [name |-> name], stages)

OakA ==
    TreeType(<<"o", "a", "k">>,
             << Stage(<<"$", "d", "a", "t", "a", "/", "t", "r", "e", "e", "s", "/", "o", "a", "k", "_", "s", "t", "a", "g", "e", "0", "1", ".", "i", "3", "d">>),
                Stage(<<"$", "d", "a", "t", "a", "/", "t", "r", "e", "e", "s", "/", "o", "a", "k", "_", "s", "t", "a", "g", "e", "0", "2", ".", "i", "3", "d">>),
                Stage(<<"t", "r", "e", "e", "s", "/", "o", "a", "k", "_", "s", "t", "a", "g", "e", "0", "3", ".", "i", "3", "d">>) >>)

OakB ==
    TreeType(<<"O", "A", "K">>,
             << Stage(<<"t", "/", "o", "a", "k", "1", ".", "i", "3", "d">>),
                StageOf(<< Variation(<<"$", "d", "a", "t", "a", "/", "t", "/", "o", "a", "k", "2", "a", ".", "i", "3", "d">>, <<"a">>),
                           Variation(<<"t", "/", "o", "a", "k", "2", "b", ".", "i", "3", "d">>, <<>>) >>),
                StageOf(<<>>),
                Stage(<<"t", "/", "o", "a", "k", "3", ".", "i", "3", "d">>),
                Elem("stage", [filename |-> <<>>], << Variation(<<"t", "/", "o", "a", "k", "4", ".", "i", "3", "d">>, <<>>) >>),
                Stage(<<"t", "/", "o", "a", "k", "5", ".", "i", "3", "d">>) >>)

OakNoStages == TreeType(<<"O", "a", "k">>, << StageOf(<<>>) >>)

Pine1 == TreeType(<<"p", "i", "n", "e">>, << Stage(<<"t", "/", "p", "i", "n", "e", "1", ".", "i", "3", "d">>) >>)
Pine2 == TreeType(<<"P", "i", "n", "e">>, << Stage(<<"t", "/", "p", "1", ".", "i", "3", "d">>), Stage(<<"t", "/", "p", "2", ".", "i", "3", "d">>) >>)
Unnamed == Elem("treeType", NoAttrs, << Stage(<<"t", "/", "x", ".", "i", "3", "d">>) >>)

TreeTypesDoc(types) == Elem("treeTypes", NoAttrs, types)
MapDoc(kids) == Elem("map", NoAttrs, kids)
Pointer(filename) == Elem("treeTypes", [filename |-> filename], <<>>)

File(path, ok, root) == [path |-> path, ok |-> ok, root |-> root]

Files ==
    { File(<<"c", "f", "g", "/", "a", ".", "x", "m", "l">>, TRUE, TreeTypesDoc(<<OakA>>)),
      File(<<"c", "f", "g", "/", "b", ".", "x", "m", "l">>, TRUE, MapDoc(<<TreeTypesDoc(<<Unnamed, OakB, Pine1>>)>>)),
      File(<<"c", "f", "g", "/", "c", ".", "x", "m", "l">>, TRUE, TreeTypesDoc(<<OakNoStages, Pine2, Pine1>>)),
      File(<<"c", "f", "g", "/", "b", "a", "d", ".", "x", "m", "l">>, FALSE, TreeTypesDoc(<<Pine2>>)),
      \* game data folders: data has the base types, data2 a malformed file
      File(<<"d", "a", "t", "a", "/", "m", "a", "p", "s", "/", "m", "a", "p", "s", "_", "t", "r", "e", "e", "T", "y", "p", "e", "s", ".", "x", "m", "l">>, TRUE, TreeTypesDoc(<<OakA, Pine2>>)),
      File(<<"d", "a", "t", "a", "2", "/", "m", "a", "p", "s", "/", "m", "a", "p", "s", "_", "t", "r", "e", "e", "T", "y", "p", "e", "s", ".", "x", "m", "l">>, FALSE, TreeTypesDoc(<<OakA>>)),
      \* m1: the pointer only resolves with the leading "map/" stripped
      File(<<"m", "1", "/", "m", "a", "p", ".", "x", "m", "l">>, TRUE, MapDoc(<<Pointer(<<"m", "a", "p", "/", "t", "t", ".", "x", "m", "l">>)>>)),
      File(<<"m", "1", "/", "t", "t", ".", "x", "m", "l">>, TRUE, MapDoc(<<TreeTypesDoc(<<OakB>>)>>)),
      \* m2: the literal path and the stripped one both exist
      File(<<"m", "2", "/", "m", "a", "p", ".", "x", "m", "l">>, TRUE, MapDoc(<<Pointer(<<"m", "a", "p", "/", "t", "t", ".", "x", "m", "l">>)>>)),
      File(<<"m", "2", "/", "m", "a", "p", "/", "t", "t", ".", "x", "m", "l">>, TRUE, TreeTypesDoc(<<Pine1>>)),
      File(<<"m", "2", "/", "t", "t", ".", "x", "m", "l">>, TRUE, TreeTypesDoc(<<OakB>>)),
      \* m3: malformed map.xml;  m4: no pointer;  m5: pointer to a missing
      \* file;  m6: pointer to a malformed file;  m7/map.xml does not exist
      File(<<"m", "3", "/", "m", "a", "p", ".", "x", "m", "l">>, FALSE, MapDoc(<<Pointer(<<"t", "t", ".", "x", "m", "l">>)>>)),
      File(<<"m", "3", "/", "t", "t", ".", "x", "m", "l">>, TRUE, TreeTypesDoc(<<Pine1>>)),
      File(<<"m", "4", "/", "m", "a", "p", ".", "x", "m", "l">>, TRUE, MapDoc(<<>>)),
      File(<<"m", "5", "/", "m", "a", "p", ".", "x", "m", "l">>, TRUE, MapDoc(<<Pointer(<<"t", "t", ".", "x", "m", "l">>)>>)),
      File(<<"m", "6", "/", "m", "a", "p", ".", "x", "m", "l">>, TRUE, MapDoc(<<Pointer(<<"b", "a", "d", ".", "x", "m", "l">>)>>)),
      File(<<"m", "6", "/", "b", "a", "d", ".", "x", "m", "l">>, FALSE, TreeTypesDoc(<<OakB>>)),
      \* m8: the map-local file names oak without a usable stage
      File(<<"m", "8", "/", "m", "a", "p", ".", "x", "m", "l">>, TRUE, MapDoc(<<Pointer(<<"t", "t", ".", "x", "m", "l">>)>>)),
      File(<<"m", "8", "/", "t", "t", ".", "x", "m", "l">>, TRUE, TreeTypesDoc(<<OakNoStages, Pine1>>)) }

\* Path.exists()
Exists(path) == \E f \in Files : f.path = path

FileAt(path) == CHOOSE f \in Files : f.path = path

\* The arguments the model passes to load_from_xml / load_from_map.
XmlPaths == { <<"c", "f", "g", "/", "a", ".", "x", "m", "l">>, <<"c", "f", "g", "/", "b", ".", "x", "m", "l">>, <<"c", "f", "g", "/", "c", ".", "x", "m", "l">>, <<"c", "f", "g", "/", "b", "a", "d", ".", "x", "m", "l">>,
              <<"c", "f", "g", "/", "n", "o", "n", "e", ".", "x", "m", "l">> }
MapPaths == { <<"m", "1", "/", "m", "a", "p", ".", "x", "m", "l">>, <<"m", "2", "/", "m", "a", "p", ".", "x", "m", "l">>, <<"m", "3", "/", "m", "a", "p", ".", "x", "m", "l">>, <<"m", "4", "/", "m", "a", "p", ".", "x", "m", "l">>,
              <<"m", "5", "/", "m", "a", "p", ".", "x", "m", "l">>, <<"m", "6", "/", "m", "a", "p", ".", "x", "m", "l">>, <<"m", "7", "/", "m", "a", "p", ".", "x", "m", "l">>, <<"m", "8", "/", "m", "a", "p", ".", "x", "m", "l">> }
GameDataPaths == { None, <<"d", "a", "t", "a">>, <<"d", "a", "t", "a", "2">>, <<"d", "a", "t", "a", "3">> }

-----------------------------------------------------------------------------
(* TreeTypeLoader *)

\* TreeTypeLoader.__init__: no types
EmptyCatalog == [k \in {} |-> NoElem]

\* The "$data/" macro of a stage or variation filename.
ResolveData(filename, base_directory) ==
    IF base_directory # None /\ StartsWith(filename, <<"$", "d", "a", "t", "a", "/">>)
    THEN PathJoin(base_directory, DropFirst(filename, 6))
    ELSE filename

\* The variations of one <stage>: its own filename when it has one, else
\* its <variation> children.
StageVariations(stage_elem, base_directory) ==
    LET filename == Attr(stage_elem, "filename", None)
        vars_ == FindAll(stage_elem, "variation")
    IN  IF Truthy(filename)
        THEN << [filename |-> ResolveData(filename, base_directory)] >>
        ELSE [i \in 1..Len(vars_) |->
                [filename |-> ResolveData(Attr(vars_[i], "filename", <<>>),
                                          base_directory),
                 name |-> Attr(vars_[i], "name", <<>>)]]

\* The loop over the <stage> children: a stage without variations is
\* dropped and takes no index.
RECURSIVE ParseStages(_, _, _)
ParseStages(stage_elems, base_directory, stages) ==
    IF stage_elems = <<>> THEN stages
    ELSE LET variations == StageVariations(Head(stage_elems), base_directory)
         IN  ParseStages(Tail(stage_elems), base_directory,
                 IF variations # <<>>
                 THEN Append(stages, [stage_index |-> Len(stages) + 1,
                                      variations |-> variations])
                 ELSE stages)

TreeTypeDesc(tree_type_elem, base_directory) ==
    LET name == Attr(tree_type_elem, "name", <<>>)
    IN  [name |-> name,
         split_type |-> Attr(tree_type_elem, "splitType", Upper(name)),
         title |-> Attr(tree_type_elem, "title", name),
         stages |-> ParseStages(FindAll(tree_type_elem, "stage"),
                                base_directory, <<>>)]

\* A variant that keeps the stages already registered under the name and
\* appends the new ones to them ("extend" instead of "replace").
RegisterExtending(types, desc) ==
    [k \in DOMAIN types \cup {Upper(desc.name)} |->
        IF k # Upper(desc.name) THEN types[k]
        ELSE IF k \in DOMAIN types
        THEN [types[k] EXCEPT !.stages = types[k].stages \o desc.stages]
        ELSE desc]

\* self.tree_types[name_upper] = TreeTypeDesc(...)
Register(types, desc) ==
    [k \in DOMAIN types \cup {Upper(desc.name)} |->
        IF k = Upper(desc.name) THEN desc ELSE types[k]]

\* The loop over the <treeType> children; st is [types, count].
RECURSIVE LoadTypes(_, _, _)
LoadTypes(tree_type_elems, base_directory, st) ==
    IF tree_type_elems = <<>> THEN st
    ELSE LET desc == TreeTypeDesc(Head(tree_type_elems), base_directory)
         IN  LoadTypes(Tail(tree_type_elems), base_directory,
                 IF desc.name # <<>> /\ desc.stages # <<>>
                 THEN [types |-> Register(st.types, desc),
                       count |-> st.count + 1]
                 ELSE st)

\* A variant of the parser that hands out what it read before the error.
ParsesLeniently(xml_path) == TRUE

\* ET.parse(xml_path) succeeds
Parses(xml_path) == FileAt(xml_path).ok

\* The element whose <treeType> children are read: the first <treeTypes>
\* below the root, else the root itself.
TreeTypesElem(root) ==
    LET found == FindFirst(root.kids, "treeTypes")
    IN  IF found.tag = NoElem.tag THEN root ELSE found

\* load_from_xml: [types, ret, calls]; calls lists the load_from_xml calls
\* made, here the one.
load_from_xml(types, xml_path, base_directory) ==
    LET call(n) == [path |-> xml_path, base |-> base_directory, count |-> n]
    IN  IF ~Exists(xml_path)
        THEN [types |-> types, ret |-> Returned(0), calls |-> <<call(0)>>]
        ELSE IF ~Parses(xml_path)
        THEN [types |-> types, ret |-> Returned(0), calls |-> <<call(0)>>]
        ELSE With(LoadTypes(FindAll(TreeTypesElem(FileAt(xml_path).root), "treeType"),
                            base_directory, [types |-> types, count |-> 0]),
                  LAMBDA st : [types |-> st.types, ret |-> Returned(st.count),
                               calls |-> <<call(st.count)>>])
\* A variant that only tries the literal relative path.
possible_paths_literal(map_dir, filename) == << PathJoin(map_dir, filename) >>

\* possible_paths: the paths tried for the <treeTypes filename=...> pointer,
\* the literal one and, for a filename that starts with "map/", the one
\* without that prefix
possible_paths(map_dir, filename) ==
    << PathJoin(map_dir, filename) >> \o
    ( IF StartsWith(filename, <<"m", "a", "p", "/">>)
      THEN << PathJoin(map_dir, DropFirst(filename, 4)) >>
      ELSE <<>> )

\* load_from_map: [types, ret, calls].  The base types of the game data
\* folder are loaded first; ET.parse of the map.xml then raises
\* FileNotFoundError (which the code does not catch) when the file is
\* missing, and ParseError (caught) when it is malformed.
load_from_map(types, map_xml_path, game_data_path) ==
    LET map_dir == PathParent(map_xml_path)
        base_types_path ==
            PathJoin(PathJoin(game_data_path, <<"m", "a", "p", "s">>), <<"m", "a", "p", "s", "_", "t", "r", "e", "e", "T", "y", "p", "e", "s", ".", "x", "m", "l">>)
        \* what is done once the base types are in
        local(base) ==
            IF ~Exists(map_xml_path)
            THEN [types |-> base.types, ret |-> Raise("FileNotFoundError"),
                  calls |-> base.calls]
            ELSE IF ~Parses(map_xml_path)
            THEN base
            ELSE With(FindFirst(FileAt(map_xml_path).root.kids, "treeTypes"),
                      LAMBDA tree_types_elem :
                 With(Attr(tree_types_elem, "filename", <<>>), LAMBDA filename :
                 With(SelectSeq(possible_paths(map_dir, filename), Exists), LAMBDA existing :
                 IF tree_types_elem.tag = NoElem.tag \/ filename = <<>>
                    \/ existing = <<>>
                 THEN base
                 ELSE With(load_from_xml(base.types, existing[1], map_dir),
                           LAMBDA loaded :
                           [types |-> loaded.types,
                            ret |-> Returned(base.ret.value + loaded.ret.value),
                            calls |-> base.calls \o loaded.calls]))))
    IN  local(IF game_data_path # None /\ Exists(base_types_path)
              THEN load_from_xml(types, base_types_path, game_data_path)
              ELSE [types |-> types, ret |-> Returned(0), calls |-> <<>>])

\* MAX_STAGES: the hardcoded number of stages by uppercased type name
MAX_STAGES ==
    << <<<<"A", "M", "E", "R", "I", "C", "A", "N", "E", "L", "M">>, 5>>, <<<<"A", "S", "P", "E", "N">>, 6>>, <<<<"B", "E", "E", "C", "H">>, 6>>,
       <<<<"B", "E", "T", "U", "L", "A", "E", "R", "M", "A", "N", "I", "I">>, 4>>, <<<<"B", "I", "R", "C", "H">>, 5>>, <<<<"B", "O", "X", "E", "L", "D", "E", "R">>, 3>>,
       <<<<"C", "H", "E", "R", "R", "Y">>, 4>>, <<<<"C", "H", "I", "N", "E", "S", "E", "E", "L", "M">>, 4>>, <<<<"D", "O", "W", "N", "Y", "S", "E", "R", "V", "I", "C", "E", "B", "E", "R", "R", "Y">>, 3>>,
       <<<<"G", "O", "L", "D", "E", "N", "R", "A", "I", "N">>, 4>>, <<<<"J", "A", "P", "A", "N", "E", "S", "E", "Z", "E", "L", "K", "O", "V", "A">>, 4>>, <<<<"L", "O", "D", "G", "E", "P", "O", "L", "E", "P", "I", "N", "E">>, 3>>,
       <<<<"M", "A", "P", "L", "E">>, 5>>, <<<<"N", "O", "R", "T", "H", "E", "R", "N", "C", "A", "T", "A", "L", "P", "A">>, 4>>, <<<<"O", "A", "K">>, 5>>,
       <<<<"P", "I", "N", "U", "S", "S", "Y", "L", "V", "E", "S", "T", "R", "I", "S">>, 5>>, <<<<"P", "I", "N", "U", "S", "T", "A", "B", "U", "L", "I", "F", "O", "R", "M", "I", "S">>, 5>>, <<<<"P", "O", "P", "L", "A", "R">>, 5>>,
       <<<<"S", "H", "A", "G", "B", "A", "R", "K", "H", "I", "C", "K", "O", "R", "Y">>, 4>>, <<<<"S", "P", "R", "U", "C", "E">>, 5>>, <<<<"T", "I", "L", "I", "A", "A", "M", "U", "R", "E", "N", "S", "I", "S">>, 4>>,
       <<<<"W", "I", "L", "L", "O", "W">>, 5>> >>

\* MAX_STAGES.get(name.upper(), 5)
MaxStagesGet(name) ==
    LET key == Upper(name)
        at == {i \in 1..Len(MAX_STAGES) : MAX_STAGES[i][1] = key}
    IN  IF at = {} THEN 5 ELSE MAX_STAGES[CHOOSE i \in at : TRUE][2]

\* TreeTypeLoader.get_type: registered under the uppercased name, or not
HasType(types, name) == Upper(name) \in DOMAIN types
get_type(types, name) == types[Upper(name)]

\* TreeTypeDesc.max_stage
max_stage(desc) == Len(desc.stages)

\* A variant that asks the hardcoded table first.
get_max_stage_table_first(types, name) ==
    IF \E i \in 1..Len(MAX_STAGES) : MAX_STAGES[i][1] = Upper(name)
    THEN MaxStagesGet(name)
    ELSE IF HasType(types, name) THEN max_stage(get_type(types, name))
    ELSE 5

\* TreeTypeLoader.get_max_stage
get_max_stage(types, name) ==
    IF HasType(types, name) THEN max_stage(get_type(types, name))
    ELSE MaxStagesGet(name)

-----------------------------------------------------------------------------
(* The catalog under load calls: any MaxLoads calls of load_from_xml and    *)
(* load_from_map, in any order.  A call that raises ends the run.          *)

MaxLoads == 2

LoadFromXml(xml_path, base_directory) ==
    /\ pc = "load"
    /\ Len(loadLog) < MaxLoads
    /\ \E r \in {load_from_xml(tree_types, xml_path, base_directory)} :
           /\ tree_types' = r.types
           /\ loadRet' = r.ret
           /\ loadLog' = Append(loadLog, [op |-> "load_from_xml", path |-> xml_path,
                                            calls |-> r.calls])
           /\ tree_types_loaded' = (r.ret.value > 0)
    /\ UNCHANGED <<pc, detectVars, lookupVars, sceneVars>>

LoadFromMap(map_xml_path, game_data_path) ==
    /\ pc = "load"
    /\ Len(loadLog) < MaxLoads
    /\ \E r \in {load_from_map(tree_types, map_xml_path, game_data_path)} :
           /\ tree_types' = r.types
           /\ loadRet' = r.ret
           /\ loadLog' = Append(loadLog, [op |-> "load_from_map", path |-> map_xml_path,
                                            game_data |-> game_data_path,
                                            calls |-> r.calls])
           /\ tree_types_loaded' = IF r.ret.raised # "" THEN tree_types_loaded
                                   ELSE r.ret.value > 0
           /\ pc' = IF r.ret.raised # "" THEN "aborted" ELSE pc
    /\ UNCHANGED <<detectVars, lookupVars, sceneVars>>

\* The parts of the state an operation does not use, at rest.
NoCatalog ==
    /\ tree_types = EmptyCatalog
    /\ loadLog = <<>>
    /\ loadRet = Returned(0)
    /\ tree_types_loaded = FALSE

NoDetect ==
    /\ dName = <<>>
    /\ dResult = [index |-> 0, tree_type |-> <<>>, stages |-> 0]

NoLookup ==
    /\ qName = <<>>
    /\ qFile = <<>>
    /\ qResult = [op |-> "", value |-> 0]

NoScene ==
    /\ nodes = <<>>
    /\ childrenOf = <<>>
    /\ parent_name = None
    /\ file_elems = <<>>
    /\ file_id_to_tree_type = <<>>
    /\ trees = <<>>
    /\ tree_parents = <<>>
    /\ visited = <<>>
    /\ findRet = Returned(0)
    /\ lines = <<>>
    /\ removed = 0

InitCatalog ==
    /\ pc = "load"
    /\ NoCatalog
    /\ NoDetect
    /\ NoLookup
    /\ NoScene

NextCatalog ==
    \/ \E p \in XmlPaths : \E b \in {None, PathParent(p)} : LoadFromXml(p, b)
    \/ \E p \in MapPaths : \E g \in GameDataPaths : LoadFromMap(p, g)

SpecCatalog == InitCatalog /\ [][NextCatalog]_vars

-----------------------------------------------------------------------------
(* Properties of the catalog *)

\* The load_from_xml calls made so far, those inside load_from_map included.
RECURSIVE FlatCalls(_)
FlatCalls(log) ==
    IF log = <<>> THEN <<>>
    ELSE FlatCalls(SubSeq(log, 1, Len(log) - 1)) \o log[Len(log)].calls

\* A call that loaded its source: the file exists and is well-formed XML.
LoadedSource(call) == Exists(call.path) /\ FileAt(call.path).ok

\* A <stage> that carries a filename or at least one <variation>.
UsableStage(stage_elem) ==
    \/ Truthy(Attr(stage_elem, "filename", None))
    \/ FindAll(stage_elem, "variation") # <<>>

\* The <treeType> entries for the key among the entries elems of one source,
\* in document order, as [elem, base]; with needStage, only the entries that
\* have a usable stage.
DefinitionsIn(elems, base, key, needStage) ==
    LET picked == SelectSeq(elems, LAMBDA e :
            /\ Attr(e, "name", <<>>) # <<>>
            /\ Upper(Attr(e, "name", <<>>)) = key
            /\ (needStage =>
                  \E i \in 1..Len(FindAll(e, "stage")) :
                      UsableStage(FindAll(e, "stage")[i])))
    IN  [i \in 1..Len(picked) |-> [elem |-> picked[i], base |-> base]]

\* The same over the calls made, in call order.
RECURSIVE Definitions(_, _, _)
Definitions(calls, key, needStage) ==
    IF calls = <<>> THEN <<>>
    ELSE LET call == calls[Len(calls)]
             before == Definitions(SubSeq(calls, 1, Len(calls) - 1), key, needStage)
         IN  IF LoadedSource(call)
             THEN before \o DefinitionsIn(
                      FindAll(TreeTypesElem(FileAt(call.path).root), "treeType"),
                      call.base, key, needStage)
             ELSE before

\* Every key a file of the model could register.
RECURSIVE ElemNames(_)
ElemNames(kids) ==
    IF kids = <<>> THEN {}
    ELSE (IF Head(kids).tag = "treeType"
          THEN {Upper(Attr(Head(kids), "name", <<>>))} ELSE {})
         \cup ElemNames(Head(kids).kids) \cup ElemNames(Tail(kids))

CandidateKeys ==
    DOMAIN tree_types \cup UNION {ElemNames(<<f.root>>) : f \in Files}

CallPaths == [i \in 1..Len(FlatCalls(loadLog)) |-> FlatCalls(loadLog)[i].path]

\* C1 (as amended): after any sequence of loads, the descriptor stored under
\* an uppercased name is exactly the one built from the last <treeType>
\* entry of that name that has a usable stage, among the sources loaded; no
\* such entry, no descriptor.  Loading cfg/a.xml (oak, 3 stages) and then
\* cfg/b.xml (OAK, 5 stages) gives get_max_stage("OAK") = 5.
C1_LastUsableDefinitionWins ==
    /\ \A key \in CandidateKeys :
          LET defs == Definitions(FlatCalls(loadLog), key, TRUE)
          IN  IF defs = <<>> THEN key \notin DOMAIN tree_types
              ELSE /\ key \in DOMAIN tree_types
                   /\ tree_types[key] =
                         TreeTypeDesc(defs[Len(defs)].elem, defs[Len(defs)].base)
    /\ CallPaths = << <<"c", "f", "g", "/", "a", ".", "x", "m", "l">>, <<"c", "f", "g", "/", "b", ".", "x", "m", "l">> >>
          => get_max_stage(tree_types, <<"O", "A", "K">>) = 5

\* C1, witness: OAK was defined by cfg/a.xml with 3 stages and then by
\* cfg/b.xml, and now has the 5 stages of cfg/b.xml.
C1_Witness ==
    /\ CallPaths = << <<"c", "f", "g", "/", "a", ".", "x", "m", "l">>, <<"c", "f", "g", "/", "b", ".", "x", "m", "l">> >>
    /\ get_max_stage(tree_types, <<"o", "a", "k">>) = 5
    /\ max_stage(TreeTypeDesc(OakA, None)) = 3

\* C1 (as stated): the descriptor stored under a name is the one defined by
\* the last loaded source that has an entry of that name, whatever the
\* entry holds.
C1_LastNamedDefinitionWins ==
    \A key \in DOMAIN tree_types :
        LET defs == Definitions(FlatCalls(loadLog), key, FALSE)
        IN  tree_types[key] =
                TreeTypeDesc(defs[Len(defs)].elem, defs[Len(defs)].base)

\* The calls of the step just taken.
NewCalls(log) == log[Len(log)].calls

FailingCall(call) == ~LoadedSource(call)

\* C7: a load_from_xml call on a missing or malformed file returns 0 and
\* leaves the catalog exactly as it was.
C7_FailedLoadKeepsCatalog ==
    [][ ( /\ Len(loadLog') = Len(loadLog) + 1
          /\ NewCalls(loadLog') # <<>>
          /\ \A i \in 1..Len(NewCalls(loadLog')) : FailingCall(NewCalls(loadLog')[i]) )
        => ( /\ tree_types' = tree_types
             /\ \A i \in 1..Len(NewCalls(loadLog')) : NewCalls(loadLog')[i].count = 0
             /\ loadLog'[Len(loadLog')].op = "load_from_xml"
                   => loadRet' = Returned(0) ) ]_vars

\* C7, witness: a failed load_from_xml has just returned, after an earlier
\* load registered types, which are still there.
C7_Witness ==
    /\ Len(loadLog) = 2
    /\ loadLog[2].op = "load_from_xml"
    /\ FailingCall(loadLog[2].calls[1])
    /\ LoadedSource(loadLog[1].calls[1])
    /\ loadRet = Returned(0)
    /\ HasType(tree_types, <<"o", "a", "k">>)

\* C8 (as stated): no load call raises; each hands an integer count back.
C8_LoadsNeverRaise == loadRet.raised = ""

-----------------------------------------------------------------------------
(* Properties of load_from_map *)

\* the last load call made
LastLoad == loadLog[Len(loadLog)]

\* the base descriptor of a game data folder
BaseTypesPath(game_data_path) ==
    game_data_path \o <<"/", "m", "a", "p", "s", "/", "m", "a", "p", "s", "_", "t", "r", "e", "e", "T", "y", "p", "e", "s", ".", "x", "m", "l">>

\* the base load of a load_from_map call: made when a game data path is
\* given and its descriptor exists
BaseLoads(entry) ==
    IF entry.game_data # None /\ Exists(BaseTypesPath(entry.game_data))
    THEN << [path |-> BaseTypesPath(entry.game_data), base |-> entry.game_data] >>
    ELSE <<>>

\* the filename of the <treeTypes> pointer of a well-formed map.xml ("" when
\* there is none)
PointerOf(map_xml_path) ==
    LET root == FileAt(map_xml_path).root
        found == FindFirst(root.kids, "treeTypes")
    IN  Attr(found, "filename", <<>>)

\* the map-local load of a load_from_map call: of the literal path below
\* the map directory when it exists, else of the path without the leading
\* "map/" when the filename has one and that path exists
LocalLoads(entry) ==
    IF ~Exists(entry.path) THEN <<>>
    ELSE IF ~FileAt(entry.path).ok THEN <<>>
    ELSE LET map_dir == PathParent(entry.path)
             filename == PointerOf(entry.path)
             literal == map_dir \o <<"/">> \o filename
             stripped == map_dir \o <<"/">> \o DropFirst(filename, 4)
         IN  IF filename = <<>> THEN <<>>
             ELSE IF Exists(literal) THEN << [path |-> literal, base |-> map_dir] >>
             ELSE IF SubSeq(filename, 1, 4) = <<"m", "a", "p", "/">> /\ Exists(stripped)
             THEN << [path |-> stripped, base |-> map_dir] >>
             ELSE <<>>

\* the path and base directory of each load_from_xml call of a log entry
CallsMade(entry) ==
    [i \in 1..Len(entry.calls) |->
        [path |-> entry.calls[i].path, base |-> entry.calls[i].base]]

RECURSIVE SumCounts(_)
SumCounts(calls) ==
    IF calls = <<>> THEN 0 ELSE Head(calls).count + SumCounts(Tail(calls))

\* the keys with a <treeType> entry (with needStage: one that has a usable
\* stage) in the source of each of the calls
KeysDefined(calls, needStage) ==
    {key \in CandidateKeys : Definitions(calls, key, needStage) # <<>>}

-----------------------------------------------------------------------------
(* detect_tree_type *)

\* One alternative of a pattern: the literal, and the texts of its negative
\* lookaheads (?!.*text), none of which may occur after the literal.
Alt(lit, notAhead) == [lit |-> lit, notAhead |-> notAhead]

Lit(lit) == Alt(lit, <<>>)

Pat(alts, tree_type, stages) ==
    [alts |-> alts, tree_type |-> tree_type, stages |-> stages]

\* TREE_PATTERNS, in the order of the dict literal
TREE_PATTERNS ==
    << Pat(<<Lit(<<"a", "m", "e", "r", "i", "c", "a", "n", "e", "l", "m">>)>>, <<"a", "m", "e", "r", "i", "c", "a", "n", "E", "l", "m">>, 5),
       Pat(<<Lit(<<"a", "s", "p", "e", "n">>)>>, <<"a", "s", "p", "e", "n">>, 6),
       Pat(<<Lit(<<"b", "e", "e", "c", "h">>)>>, <<"b", "e", "e", "c", "h">>, 6),
       Pat(<<Lit(<<"b", "e", "t", "u", "l", "a", "e", "r", "m", "a", "n", "i", "i">>), Lit(<<"e", "r", "m", "a", "n", "i", "i">>)>>, <<"b", "e", "t", "u", "l", "a", "E", "r", "m", "a", "n", "i", "i">>, 4),
       Pat(<<Alt(<<"b", "i", "r", "c", "h">>, <<<<"e", "r", "m", "a", "n", "i", "i">>>>)>>, <<"b", "i", "r", "c", "h">>, 5),
       Pat(<<Lit(<<"b", "o", "x", "e", "l", "d", "e", "r">>)>>, <<"b", "o", "x", "e", "l", "d", "e", "r">>, 3),
       Pat(<<Lit(<<"c", "h", "e", "r", "r", "y">>)>>, <<"c", "h", "e", "r", "r", "y">>, 4),
       Pat(<<Lit(<<"c", "h", "i", "n", "e", "s", "e", "e", "l", "m">>)>>, <<"c", "h", "i", "n", "e", "s", "e", "E", "l", "m">>, 4),
       Pat(<<Lit(<<"d", "o", "w", "n", "y", "s", "e", "r", "v", "i", "c", "e", "b", "e", "r", "r", "y">>), Lit(<<"s", "e", "r", "v", "i", "c", "e", "b", "e", "r", "r", "y">>)>>, <<"d", "o", "w", "n", "y", "S", "e", "r", "v", "i", "c", "e", "B", "e", "r", "r", "y">>, 3),
       Pat(<<Lit(<<"g", "o", "l", "d", "e", "n", "r", "a", "i", "n">>)>>, <<"g", "o", "l", "d", "e", "n", "R", "a", "i", "n">>, 4),
       Pat(<<Lit(<<"j", "a", "p", "a", "n", "e", "s", "e", "z", "e", "l", "k", "o", "v", "a">>), Lit(<<"z", "e", "l", "k", "o", "v", "a">>)>>, <<"j", "a", "p", "a", "n", "e", "s", "e", "Z", "e", "l", "k", "o", "v", "a">>, 4),
       Pat(<<Lit(<<"l", "o", "d", "g", "e", "p", "o", "l", "e", "p", "i", "n", "e">>)>>, <<"l", "o", "d", "g", "e", "p", "o", "l", "e", "P", "i", "n", "e">>, 3),
       Pat(<<Lit(<<"m", "a", "p", "l", "e">>)>>, <<"m", "a", "p", "l", "e">>, 5),
       Pat(<<Lit(<<"n", "o", "r", "t", "h", "e", "r", "n", "c", "a", "t", "a", "l", "p", "a">>), Lit(<<"c", "a", "t", "a", "l", "p", "a">>)>>, <<"n", "o", "r", "t", "h", "e", "r", "n", "C", "a", "t", "a", "l", "p", "a">>, 4),
       Pat(<<Lit(<<"o", "a", "k">>)>>, <<"o", "a", "k">>, 5),
       Pat(<<Lit(<<"p", "i", "n", "u", "s", "s", "y", "l", "v", "e", "s", "t", "r", "i", "s">>), Lit(<<"s", "c", "o", "t", "s", "p", "i", "n", "e">>), Lit(<<"s", "c", "o", "t", "s", "_", "p", "i", "n", "e">>)>>,
           <<"p", "i", "n", "u", "s", "S", "y", "l", "v", "e", "s", "t", "r", "i", "s">>, 5),
       Pat(<<Lit(<<"p", "i", "n", "u", "s", "t", "a", "b", "u", "l", "i", "f", "o", "r", "m", "i", "s">>), Lit(<<"c", "h", "i", "n", "e", "s", "e", "p", "i", "n", "e">>)>>, <<"p", "i", "n", "u", "s", "T", "a", "b", "u", "l", "i", "f", "o", "r", "m", "i", "s">>, 5),
       Pat(<<Lit(<<"p", "o", "p", "l", "a", "r">>)>>, <<"p", "o", "p", "l", "a", "r">>, 5),
       Pat(<<Lit(<<"s", "h", "a", "g", "b", "a", "r", "k", "h", "i", "c", "k", "o", "r", "y">>), Lit(<<"h", "i", "c", "k", "o", "r", "y">>)>>, <<"s", "h", "a", "g", "b", "a", "r", "k", "H", "i", "c", "k", "o", "r", "y">>, 4),
       Pat(<<Lit(<<"s", "p", "r", "u", "c", "e">>)>>, <<"s", "p", "r", "u", "c", "e">>, 5),
       Pat(<<Lit(<<"t", "i", "l", "i", "a", "a", "m", "u", "r", "e", "n", "s", "i", "s">>), Alt(<<"l", "i", "n", "d", "e", "n">>, <<<<"s", "t", "a", "t", "i", "o", "n">>>>), Lit(<<"l", "i", "m", "e", "t", "r", "e", "e">>)>>,
           <<"t", "i", "l", "i", "a", "A", "m", "u", "r", "e", "n", "s", "i", "s">>, 4),
       Pat(<<Lit(<<"w", "i", "l", "l", "o", "w">>)>>, <<"w", "i", "l", "l", "o", "w">>, 5),
       \* Generic pine fallback
       Pat(<<Alt(<<"p", "i", "n", "e">>, <<<<"s", "y", "l", "v", "e", "s", "t", "r", "i", "s">>, <<"t", "a", "b", "u", "l", "i", "f", "o", "r", "m", "i", "s">>>>)>>, <<"l", "o", "d", "g", "e", "p", "o", "l", "e", "P", "i", "n", "e">>, 3) >>

\* The alternative matches at offset i of s.
AltMatchesAt(alt, s, i) ==
    /\ OccursAt(s, alt.lit, i)
    /\ \A k \in 1..Len(alt.notAhead) :
          ~Contains(DropFirst(s, i + Len(alt.lit)), alt.notAhead[k])

\* re.search(pattern, s) finds a match
Matches(pattern, s) ==
    \E a \in 1..Len(pattern.alts) : \E i \in 0..Len(s) :
        AltMatchesAt(pattern.alts[a], s, i)

\* name.lower().replace('_', '').replace('-', '').replace(' ', '')
Normalize(name) == RemoveChar(RemoveChar(RemoveChar(Lower(name), "_"), "-"), " ")

\* What detect_tree_type returns: None (index 0), or the (tree_type, stages)
\* of the entry at index.
NoMatch == [index |-> 0, tree_type |-> <<>>, stages |-> 0]

EntryResult(i) ==
    [index |-> i, tree_type |-> TREE_PATTERNS[i].tree_type,
     stages |-> TREE_PATTERNS[i].stages]

\* The loop over TREE_PATTERNS.items() from entry i on
RECURSIVE DetectFrom(_, _)
DetectFrom(name_lower, i) ==
    IF i > Len(TREE_PATTERNS) THEN NoMatch
    ELSE IF Matches(TREE_PATTERNS[i], name_lower) THEN EntryResult(i)
    ELSE DetectFrom(name_lower, i + 1)

\* A variant of the loop without the early return: the last match wins.
RECURSIVE DetectLastFrom(_, _)
DetectLastFrom(name_lower, i) ==
    IF i < 1 THEN NoMatch
    ELSE IF Matches(TREE_PATTERNS[i], name_lower) THEN EntryResult(i)
    ELSE DetectLastFrom(name_lower, i - 1)

detect_tree_type_last(name) == DetectLastFrom(Normalize(name), Len(TREE_PATTERNS))

detect_tree_type(name) == DetectFrom(Normalize(name), 1)

-----------------------------------------------------------------------------
(* detect_tree_type on names: every concatenation of at most MaxNameParts   *)
(* of the fragments.                                                       *)

MaxNameParts == 3

NameFragments ==
    { <<"p", "i", "n", "u", "s">>, <<"s", "y", "l", "v", "e", "s", "t", "r", "i", "s">>, <<"S", "c", "o", "t", "s">>, <<"p", "i", "n", "e">>, <<"c", "h", "i", "n", "e", "s", "e">>, <<"t", "a", "b", "u", "l", "i", "f", "o", "r", "m", "i", "s">>,
      <<"l", "o", "d", "g", "e", "p", "o", "l", "e">>, <<"o", "a", "k">>, <<"_", "s", "t", "a", "g", "e", "0", "3">>, <<"_">>, <<"-", " ">> }

RECURSIVE NamesOf(_)
NamesOf(n) ==
    IF n = 0 THEN {<<>>}
    ELSE NamesOf(n - 1) \cup {f \o r : f \in NameFragments, r \in NamesOf(n - 1)}

Names == NamesOf(MaxNameParts)

Detect ==
    /\ pc = "detect"
    /\ dResult' = detect_tree_type(dName)
    /\ pc' = "detected"
    /\ UNCHANGED <<catalogVars, dName, lookupVars, sceneVars>>

InitDetect ==
    /\ pc = "detect"
    /\ dName \in Names
    /\ dResult = NoMatch
    /\ NoLookup
    /\ NoCatalog
    /\ NoScene

NextDetect == Detect

SpecDetect == InitDetect /\ [][NextDetect]_vars

-----------------------------------------------------------------------------
(* Properties of detect_tree_type *)

\* The entries of the table that match the normalized name.
MatchingEntries(name) ==
    {i \in 1..Len(TREE_PATTERNS) : Matches(TREE_PATTERNS[i], Normalize(name))}

\* The species-specific pine patterns, with the entry each belongs to.
SpeciesPines ==
    << [marker |-> <<"p", "i", "n", "u", "s", "s", "y", "l", "v", "e", "s", "t", "r", "i", "s">>, entry |-> 16],
       [marker |-> <<"s", "c", "o", "t", "s", "p", "i", "n", "e">>, entry |-> 16],
       [marker |-> <<"p", "i", "n", "u", "s", "t", "a", "b", "u", "l", "i", "f", "o", "r", "m", "i", "s">>, entry |-> 17],
       [marker |-> <<"c", "h", "i", "n", "e", "s", "e", "p", "i", "n", "e">>, entry |-> 17],
       [marker |-> <<"l", "o", "d", "g", "e", "p", "o", "l", "e", "p", "i", "n", "e">>, entry |-> 12] >>

GenericPine == Len(TREE_PATTERNS)

\* The name with '_', '-', ' ' removed and lowercased, computed per character.
Stripped(name) ==
    LET keep == SelectSeq(name, LAMBDA c : c \notin {"_", "-", " "})
    IN  [i \in 1..Len(keep) |-> LowerChar(keep[i])]

\* C2 (as amended): detect_tree_type returns the entry of the first pattern,
\* top to bottom, that matches the normalized name, and None when none does;
\* a name that matches a species-specific pine pattern is never resolved by
\* the generic pine entry, and resolves to that species when no earlier
\* entry of the table matches; "pinussylvestris_stage03" gives
\* ("pinusSylvestris", 5).
C2_FirstMatchWins ==
    pc = "detected" =>
        /\ Normalize(dName) = Stripped(dName)
        /\ IF MatchingEntries(dName) = {} THEN dResult = NoMatch
           ELSE /\ dResult.index \in MatchingEntries(dName)
                /\ \A i \in MatchingEntries(dName) : dResult.index <= i
                /\ dResult.tree_type = TREE_PATTERNS[dResult.index].tree_type
                /\ dResult.stages = TREE_PATTERNS[dResult.index].stages
        /\ \A k \in 1..Len(SpeciesPines) :
              Contains(Stripped(dName), SpeciesPines[k].marker) =>
                  /\ dResult.index \notin {0, GenericPine}
                  /\ (\A i \in MatchingEntries(dName) : SpeciesPines[k].entry <= i)
                        => dResult = EntryResult(SpeciesPines[k].entry)
        /\ dName = <<"p", "i", "n", "u", "s", "s", "y", "l", "v", "e", "s", "t", "r", "i", "s", "_", "s", "t", "a", "g", "e", "0", "3">>
              => (dResult.tree_type = <<"p", "i", "n", "u", "s", "S", "y", "l", "v", "e", "s", "t", "r", "i", "s">> /\ dResult.stages = 5)

\* C2, witness: a name with a Scots pine marker, which the generic pine
\* pattern matches too, resolved to pinusSylvestris.
C2_Witness ==
    /\ pc = "detected"
    /\ dName = <<"S", "c", "o", "t", "s", "_", "p", "i", "n", "e">>
    /\ GenericPine \in MatchingEntries(dName)
    /\ dResult.tree_type = <<"p", "i", "n", "u", "s", "S", "y", "l", "v", "e", "s", "t", "r", "i", "s">>

\* C2 (as stated): every name that matches a species-specific pine pattern
\* resolves to that species.
C2_SpeciesPineAlwaysWins ==
    pc = "detected" =>
        \A k \in 1..Len(SpeciesPines) :
            Contains(Stripped(dName), SpeciesPines[k].marker) =>
                dResult.tree_type = TREE_PATTERNS[SpeciesPines[k].entry].tree_type

-----------------------------------------------------------------------------
(* float.  A float is modelled in sign and magnitude, [neg, mag], with mag  *)
(* in units of 1/Unit, so that -0.0 is a value of its own, as in IEEE 754: *)
(* the sign of a zero survives negation, multiplication and formatting.    *)
(* The model is exact on the numbers it is used on (integers, and the      *)
(* sines and cosines of multiples of 45 degrees to 6 decimals); angles are *)
(* kept in degrees, math.radians and math.degrees being inverse to each    *)
(* other far below the 4 decimals that are written out.                    *)

Unit == 10 ^ 6

Num(neg, mag) == [neg |-> neg, mag |-> mag]

\* an int, or a float with an integral value
Int2Num(n) == IF n < 0 THEN Num(TRUE, (-n) * Unit) ELSE Num(FALSE, n * Unit)

Zero == Num(FALSE, 0)
One == Num(FALSE, Unit)

\* the value in units of 1/Unit, sign applied (both zeros give 0)
Signed(a) == IF a.neg THEN -a.mag ELSE a.mag

\* -a
Minus(a) == Num(~a.neg, a.mag)

\* x * y \div Unit for x, y < Unit, rounded to the nearest unit; the product
\* is built from the halves of x and y to stay within 32 bits
FracTimes(x, y) ==
    LET x1 == x \div 1000  x0 == x % 1000
        y1 == y \div 1000  y0 == y % 1000
    IN  x1 * y1 + ((x1 * y0 + x0 * y1) * 1000 + x0 * y0 + Unit \div 2) \div Unit

\* a * b, rounded to the nearest unit
Times(a, b) ==
    LET ah == a.mag \div Unit  al == a.mag % Unit
        bh == b.mag \div Unit  bl == b.mag % Unit
    IN  Num(a.neg # b.neg,
            ah * bh * Unit + ah * bl + al * bh + FracTimes(al, bl))

\* a + b: a zero sum is -0.0 only when both terms are -0.0
Plus(a, b) ==
    LET s == Signed(a) + Signed(b)
    IN  IF s > 0 THEN Num(FALSE, s)
        ELSE IF s < 0 THEN Num(TRUE, -s)
        ELSE Num(a.neg /\ b.neg, 0)

\* a < b, a > b (the zeros are equal)
Less(a, b) == Signed(a) < Signed(b)

\* float(token): an optional '-', digits, and an optional '.' with digits;
\* any other token is a ValueError ([ok |-> FALSE]).
FloatOf(token) ==
    LET neg == token # <<>> /\ token[1] = "-"
        \* the digits before the point, and what follows them
        parsed(whole, rest) ==
            With(IF rest # <<>> /\ rest[1] = "." THEN DigitRun(rest, 1) ELSE <<>>,
                 LAMBDA frac :
                 IF /\ whole # <<>>
                    /\ \/ rest = <<>>
                       \/ rest[1] = "." /\ Len(frac) = Len(rest) - 1 /\ Len(frac) <= 6
                 THEN [ok |-> TRUE,
                       val |-> Num(neg, IntOf(whole) * Unit
                                        + IntOf(frac) * (10 ^ (6 - Len(frac))))]
                 ELSE [ok |-> FALSE, val |-> Zero])
    IN  With(IF neg THEN Tail(token) ELSE token, LAMBDA body :
        With(DigitRun(body, 0), LAMBDA whole :
             parsed(whole, DropFirst(body, Len(whole)))))

\* str.split(): the maximal runs of non-blank characters
RECURSIVE Split(_)
Split(s) ==
    IF s = <<>> THEN <<>>
    ELSE IF Head(s) = " " THEN Split(Tail(s))
    ELSE LET blanks == {i \in 1..Len(s) : s[i] = " "}
             n == IF blanks = {} THEN Len(s)
                  ELSE (CHOOSE i \in blanks : \A k \in blanks : i <= k) - 1
         IN  <<SubSeq(s, 1, n)>> \o Split(DropFirst(s, n))

\* float(v) for v in tokens, when every token is a float
RECURSIVE Floats(_)
Floats(tokens) ==
    IF tokens = <<>> THEN <<>>
    ELSE <<FloatOf(Head(tokens)).val>> \o Floats(Tail(tokens))

\* parse_vector: the default for None, for '' and when a token is no float;
\* otherwise one float per token, however many there are.
parse_vector(value, default) ==
    IF ~Truthy(value) THEN default
    ELSE With(Split(value), LAMBDA tokens :
         IF \E i \in 1..Len(tokens) : ~FloatOf(tokens[i]).ok THEN default
         ELSE Floats(tokens))

\* sin and cos of 0, 45, 90, 135, 180 degrees, to 6 decimals
SinTable == << 0, 707107, 1000000, 707107, 0 >>
CosTable == << 1000000, 707107, 0, -707107, -1000000 >>

\* the row of the tables for an angle of d degrees, d one of 0, 45, ..., 180
Row(d) == CHOOSE r \in 1..5 : (r - 1) * 45 = d

\* math.sin(math.radians(a)) for a a multiple of 45 degrees in -180..180
Sin(a) == Num(a.neg, SinTable[Row(a.mag \div Unit)])

\* math.cos(math.radians(a)), likewise
Cos(a) ==
    LET c == CosTable[Row(a.mag \div Unit)]
    IN  IF c < 0 THEN Num(TRUE, -c) ELSE Num(FALSE, c)

Abs(n) == IF n < 0 THEN -n ELSE n

\* math.degrees(math.asin(v)) for -1 <= v <= 1: the angle of the table whose
\* sine is nearest, with the sign of v (asin(-0.0) is -0.0)
Asin(v) ==
    LET rows == 1..3
        best == CHOOSE r \in rows :
                    \A q \in rows : Abs(SinTable[r] - v.mag) <= Abs(SinTable[q] - v.mag)
    IN  Num(v.neg, (best - 1) * 45 * Unit)

\* math.degrees(math.atan2(y, x)): the angle of the table nearest to the
\* direction of (x, y), with the sign of y.  atan2(+-0, x) is +-0 for x >= +0
\* and +-180 for x <= -0.
Atan2(y, x) ==
    LET rows == 1..5
        off(r) == Abs(y.mag * CosTable[r] - Signed(x) * SinTable[r])
        ahead(r) == Signed(x) * CosTable[r] + y.mag * SinTable[r] >= 0
        best == CHOOSE r \in rows :
                    /\ ahead(r)
                    /\ \A q \in rows : ahead(q) => off(r) <= off(q)
    IN  IF y.mag = 0 THEN Num(y.neg, IF x.neg THEN 180 * Unit ELSE 0)
        ELSE Num(y.neg, (best - 1) * 45 * Unit)

\* f"{v:.4f}": 4 decimals, round half to even; a negative sign is written
\* for every negative value, -0.0 and those that round to zero included.
Fmt4(v) ==
    LET per == Unit \div 10000
        q == v.mag \div per
        r == v.mag % per
        up == 2 * r > per \/ (2 * r = per /\ q % 2 = 1)
        n == IF up THEN q + 1 ELSE q
        frac == n % 10000
        pad == IF frac < 10 THEN "000" ELSE IF frac < 100 THEN "00"
               ELSE IF frac < 1000 THEN "0" ELSE ""
    IN  (IF v.neg THEN "-" ELSE "") \o ToString(n \div 10000) \o "."
        \o pad \o ToString(frac)

-----------------------------------------------------------------------------
(* The transform engine: 4x4 matrices, row-major, as tuples of rows *)

identity ==
    << <<One, Zero, Zero, Zero>>, <<Zero, One, Zero, Zero>>,
       <<Zero, Zero, One, Zero>>, <<Zero, Zero, Zero, One>> >>

\* result[i][j], accumulated from 0.0 over k = 0..3
Entry(m1, m2, i, j) ==
    Plus(Plus(Plus(Plus(Zero, Times(m1[i][1], m2[1][j])),
                   Times(m1[i][2], m2[2][j])),
              Times(m1[i][3], m2[3][j])),
         Times(m1[i][4], m2[4][j]))

\* multiply_matrices
multiply_matrices(m1, m2) ==
    LET row(i) == << Entry(m1, m2, i, 1), Entry(m1, m2, i, 2),
                     Entry(m1, m2, i, 3), Entry(m1, m2, i, 4) >>
    IN  << row(1), row(2), row(3), row(4) >>

\* rotation_matrix, angles in degrees (ZYX order); -a*b is (-a)*b
rotation_matrix(rx, ry, rz) ==
    LET cx == Cos(rx)  sx == Sin(rx)
        cy == Cos(ry)  sy == Sin(ry)
        cz == Cos(rz)  sz == Sin(rz)
    IN  << << Times(cy, cz), Times(Minus(cy), sz), sy, Zero >>,
           << Plus(Times(Times(sx, sy), cz), Times(cx, sz)),
              Plus(Times(Times(Minus(sx), sy), sz), Times(cx, cz)),
              Times(Minus(sx), cy), Zero >>,
           << Plus(Times(Times(Minus(cx), sy), cz), Times(sx, sz)),
              Plus(Times(Times(cx, sy), sz), Times(sx, cz)),
              Times(cx, cy), Zero >>,
           << Zero, Zero, Zero, One >> >>

\* transform_matrix: rows 0..2 of the rotation scaled by sx, sy, sz, then
\* the translation put in column 3
transform_matrix(tx, ty, tz, rx, ry, rz, sx, sy, sz) ==
    LET row(r, s, t) == << Times(r[1], s), Times(r[2], s), Times(r[3], s), t >>
    IN  With(rotation_matrix(rx, ry, rz), LAMBDA rot :
             << row(rot[1], sx, tx), row(rot[2], sy, ty), row(rot[3], sz, tz),
                rot[4] >>)

\* max(-1, min(1, v))
Clamp(v) ==
    LET low == IF Less(v, One) THEN v ELSE One
    IN  IF Less(Minus(One), low) THEN low ELSE Minus(One)

\* 0.001, the gimbal lock threshold
GimbalThreshold == Unit \div 1000

\* extract_world_transform: [pos, rot], the rotation in degrees
extract_world_transform(matrix) ==
    LET ry == Asin(Clamp(matrix[1][3]))
        free == Cos(ry).mag > GimbalThreshold
        rx == IF free THEN Atan2(Minus(matrix[2][3]), matrix[3][3])
              ELSE Atan2(matrix[3][2], matrix[2][2])
        rz == IF free THEN Atan2(Minus(matrix[1][2]), matrix[1][1])
              ELSE Zero
    IN  [pos |-> <<matrix[1][4], matrix[2][4], matrix[3][4]>>,
         rot |-> <<rx, ry, rz>>]

-----------------------------------------------------------------------------
(* TreeTypeDesc.find_stage_by_filename and the loader's lookup by filename *)

\* The (stage, variation) pairs of a descriptor in loop order, as
\* [stage_index, var_idx, filename].
RECURSIVE VariationList(_)
VariationList(stages) ==
    IF stages = <<>> THEN <<>>
    ELSE LET stage == Head(stages)
         IN  [v \in 1..Len(stage.variations) |->
                [stage_index |-> stage.stage_index, var_idx |-> v,
                 filename |-> stage.variations[v].filename]]
             \o VariationList(Tail(stages))

\* A variant that keeps scanning and returns the last match.
find_stage_by_filename_last(desc, filename) ==
    With(Lower(Stem(filename)), LAMBDA base_name :
    With(VariationList(desc.stages), LAMBDA all :
    With({i \in 1..Len(all) :
             \/ Lower(Stem(all[i].filename)) = base_name
             \/ Contains(Lower(all[i].filename), base_name)}, LAMBDA hits :
    IF hits = {} THEN [stage |-> max_stage(desc), variation |-> 1]
    ELSE With(CHOOSE i \in hits : \A k \in hits : k <= i, LAMBDA last :
         [stage |-> all[last].stage_index, variation |-> all[last].var_idx]))))

\* TreeTypeDesc.find_stage_by_filename: [stage, variation]
find_stage_by_filename(desc, filename) ==
    With(Lower(Stem(filename)), LAMBDA base_name :
    With(VariationList(desc.stages), LAMBDA all :
    With({i \in 1..Len(all) :
             \/ Lower(Stem(all[i].filename)) = base_name
             \/ Contains(Lower(all[i].filename), base_name)}, LAMBDA hits :
    IF hits = {} THEN [stage |-> max_stage(desc), variation |-> 1]
    ELSE With(CHOOSE i \in hits : \A k \in hits : i <= k, LAMBDA first :
         [stage |-> all[first].stage_index, variation |-> all[first].var_idx]))))

\* int(m.group(1)) if m else default, for m = re.search(word[_]?(\d+), s)
NumberOr(s, word, default) ==
    LET m == NumberAfter(s, word)
    IN  IF m = None THEN default ELSE IntOf(m)

\* TreeTypeLoader.find_stage_and_variation: [stage, variation]
find_stage_and_variation(types, tree_type_name, filename) ==
    IF HasType(types, tree_type_name)
    THEN find_stage_by_filename(get_type(types, tree_type_name), filename)
    ELSE [stage |-> NumberOr(Lower(filename), <<"s", "t", "a", "g", "e">>,
                             get_max_stage(types, tree_type_name)),
          variation |-> NumberOr(Lower(filename), <<"v", "a", "r">>, 1)]

-----------------------------------------------------------------------------
(* The i3d document.  Its <Files> section is fixed; its <Scene> is built   *)
(* from the elements below.  A scene element is [tag, attrs]; elements are *)
(* numbered in document order from 1, 0 is the <Scene> element itself, and *)
(* kids[e] lists the children of e in order.                               *)

I3dFile(fileId, filename) == [fileId |-> fileId, filename |-> filename]

\* <File fileId=... filename=.../>
I3dFiles ==
    << I3dFile(<<"1">>, <<"$", "d", "a", "t", "a", "/", "m", "a", "p", "s", "/", "t", "r", "e", "e", "s", "/", "o", "a", "k", "/", "o", "a", "k", "_", "s", "t", "a", "g", "e", "0", "5", ".", "i", "3", "d">>),
       I3dFile(<<"2">>, <<"$", "d", "a", "t", "a", "/", "m", "a", "p", "s", "/", "t", "r", "e", "e", "s", "/", "o", "a", "k", "/", "o", "a", "k", "_", "s", "t", "a", "g", "e", "0", "2", ".", "i", "3", "d">>),
       I3dFile(<<"3">>, <<"$", "d", "a", "t", "a", "/", "m", "a", "p", "s", "/", "t", "r", "e", "e", "s", "/", "p", "i", "n", "e", "/", "p", "i", "n", "u", "s", "S", "y", "l", "v", "e", "s", "t", "r", "i", "s", "_", "s", "t", "a", "g", "e", "0", "0", "_", "v", "a", "r", "0", ".", "i", "3", "d">>),
       I3dFile(<<"4">>, <<"$", "d", "a", "t", "a", "/", "m", "a", "p", "s", "/", "r", "o", "c", "k", "s", "/", "o", "a", "k", "_", "r", "o", "c", "k", ".", "i", "3", "d">>),
       I3dFile(<<"5">>, <<"$", "d", "a", "t", "a", "/", "m", "a", "p", "s", "/", "t", "r", "e", "e", "s", "/", "m", "i", "s", "c", "/", "f", "e", "n", "c", "e", "_", "s", "t", "a", "g", "e", "0", "1", ".", "i", "3", "d">>),
       I3dFile(<<"6">>, <<"$", "d", "a", "t", "a", "/", "m", "a", "p", "s", "/", "t", "r", "e", "e", "s", "/", "o", "a", "k", "/", "o", "a", "k", "_", "s", "t", "a", "g", "e", "0", "2", ".", "p", "n", "g">>) >>

Node(tag, attrs) == [tag |-> tag, attrs |-> attrs]

\* The elements a scene is made of.
GroupA ==
    Node("TransformGroup", [name |-> <<"g", "r", "o", "u", "p", "A">>, translation |-> <<"5", " ", "0", " ", "0">>])
Tree1 ==
    Node("ReferenceNode", [name |-> <<"t", "r", "e", "e", "1">>, translation |-> <<"1", "0", " ", "0", " ", "2", "0">>,
                           rotation |-> <<"0", " ", "4", "5", " ", "0">>, referenceId |-> <<"1">>])
Sun == Node("Light", [name |-> <<"s", "u", "n">>, translation |-> <<"1", " ", "2">>])
LegacyOak ==
    Node("Shape", [name |-> <<"o", "a", "k", "_", "s", "t", "a", "g", "e", "0", "0", "_", "v", "a", "r", "2">>, rotation |-> <<"0", " ", "x", " ", "0">>,
                   scale |-> <<"2", " ", "2", " ", "2">>])
Dangling ==
    Node("ReferenceNode", [name |-> <<"o", "a", "k", "_", "x">>, referenceId |-> <<"9">>, scale |-> <<>>])

NodeKinds == {GroupA, Tree1, Sun, LegacyOak, Dangling}

\* The filter names --tree-parent is given (None: no filter).
ParentNames == {None, <<"G", "R", "O", "U", "P", "A">>}

MaxNodes == 3

\* e and its ancestors, for a parent vector par
RECURSIVE PathTo(_, _)
PathTo(par, e) == IF e = 0 THEN {0} ELSE {e} \cup PathTo(par, par[e])

\* The parent vectors of n elements numbered in document order: the parent
\* of an element is the element before it or one of that element's
\* ancestors.
RECURSIVE ParentVectors(_)
ParentVectors(n) ==
    IF n = 0 THEN {<<>>}
    ELSE {Append(par, p) : par \in ParentVectors(n - 1), p \in 0..(n - 1)}

DocumentOrder(par) ==
    \A e \in 2..Len(par) : par[e] \in PathTo(par, e - 1)

\* the elements of a set of numbers as an ascending sequence
RECURSIVE Ascending(_)
Ascending(S) ==
    IF S = {} THEN <<>>
    ELSE LET least == CHOOSE x \in S : \A y \in S : x <= y
         IN  <<least>> \o Ascending(S \ {least})

KidsOf(par) == [p \in 0..Len(par) |-> Ascending({e \in 1..Len(par) : par[e] = p})]

Range(s) == {s[i] : i \in 1..Len(s)}

-----------------------------------------------------------------------------
(* I3DTreeExtractor *)

\* detect_tree_type on the names that occur in the documents, evaluated
\* once per name
DocumentNames ==
    {Stem(I3dFiles[i].filename) : i \in 1..Len(I3dFiles)}
    \cup {Attr(k, "name", <<>>) : k \in NodeKinds}

RECURSIVE DetectAll(_)
DetectAll(names) ==
    IF names = {} THEN <<>>
    ELSE LET name == CHOOSE n \in names : TRUE
         IN  (name :> detect_tree_type(name)) @@ DetectAll(names \ {name})

DetectedTypes == DetectAll(DocumentNames)

DetectTreeType(name) ==
    IF name \in DocumentNames THEN DetectedTypes[name] ELSE detect_tree_type(name)

\* element=None, parent=None of a TreeInstance
NoElement == -1

\* TreeInstance; element and parent are element numbers
TreeInstance(node_name, tree_type, pos, rot, scale, stage, variation, element, parent) ==
    [node_name |-> node_name, tree_type |-> tree_type,
     x |-> pos[1], y |-> pos[2], z |-> pos[3],
     rx |-> rot[1], ry |-> rot[2], rz |-> rot[3],
     sx |-> scale[1], sy |-> scale[2], sz |-> scale[3],
     growth_state |-> stage, variation_index |-> variation,
     element |-> element, parent |-> parent]

\* The entry _build_file_id_map makes for one <File>: [found, info]
FileEntry(file, loader_set, types) ==
    With(Stem(file.filename), LAMBDA basename :
    With(DetectTreeType(basename), LAMBDA tree_info :
    IF Contains(file.filename, <<"/", "t", "r", "e", "e", "s", "/">>) /\ EndsWith(file.filename, <<".", "i", "3", "d">>)
       /\ tree_info.index # 0
    THEN [found |-> TRUE,
          info |->
            IF loader_set
            THEN With(find_stage_and_variation(types, tree_info.tree_type, basename),
                      LAMBDA by_loader :
                      [tree_type |-> tree_info.tree_type, stage |-> by_loader.stage,
                       variation |-> by_loader.variation])
            ELSE [tree_type |-> tree_info.tree_type,
                  stage |-> NumberOr(Lower(basename), <<"s", "t", "a", "g", "e">>, tree_info.stages),
                  variation |-> NumberOr(Lower(basename), <<"v", "a", "r">>, 1)]]
    ELSE [found |-> FALSE, info |-> <<>>]))

\* _build_file_id_map: fileId -> [tree_type, stage, variation]; a later
\* <File> with the same fileId overwrites an earlier one.
RECURSIVE _build_file_id_map(_, _, _)
_build_file_id_map(files, loader_set, types) ==
    IF files = <<>> THEN <<>>
    ELSE With(FileEntry(files[Len(files)], loader_set, types), LAMBDA entry :
         With(_build_file_id_map(SubSeq(files, 1, Len(files) - 1),
                                 loader_set, types), LAMBDA before :
         IF entry.found THEN (files[Len(files)].fileId :> entry.info) @@ before
         ELSE before))

\* A scan in progress: the extractor's trees and tree_parents, the calls of
\* scan_node made so far, and the exception that ended the scan (if any).
ScanState(found, parents) ==
    [trees |-> found, tree_parents |-> parents, visited |-> <<>>, raised |-> ""]

\* scan_node recurses into the children with these tags only
Descends(tag) == tag \in {"TransformGroup", "Shape", "ReferenceNode"}

\* not parent_name or in_tree_parent
Accepts(filter, in_tree_parent) == ~Truthy(filter) \/ in_tree_parent

\* scan_node(elem, parent, parent_matrix, in_tree_parent) in a document
\* doc = [nodes, kids, map], filter being find_trees' parent_name
RECURSIVE scan_node(_, _, _, _, _, _, _), ScanChildren(_, _, _, _, _, _, _)
scan_node(doc, filter, st, elem, parent, parent_matrix, in_tree_parent) ==
    LET tag == doc.nodes[elem].tag
        name == Attr(doc.nodes[elem], "name", <<>>)
        is_target == Truthy(filter) /\ Lower(name) = Lower(filter)
        inside == in_tree_parent \/ is_target
        entered ==
            [st EXCEPT !.visited = Append(@, elem),
                       !.tree_parents = IF is_target /\ elem \notin Range(@)
                                        THEN Append(@, elem) ELSE @]
        ref_id == Attr(doc.nodes[elem], "referenceId", None)
        \* the trees the element adds, world being its world transform
        found(world, scale) ==
            IF tag = "ReferenceNode"
            THEN IF Truthy(ref_id) /\ ref_id \in DOMAIN doc.map
                    /\ Accepts(filter, inside)
                 THEN With(doc.map[ref_id], LAMBDA tree_info :
                      << TreeInstance(name, tree_info.tree_type,
                                      world.pos, world.rot, scale,
                                      tree_info.stage, tree_info.variation,
                                      elem, parent) >>)
                 ELSE <<>>
            ELSE IF tag \in {"TransformGroup", "Shape"}
            THEN With(DetectTreeType(name), LAMBDA tree_info :
                 IF tree_info.index # 0 /\ Accepts(filter, inside)
                 THEN << TreeInstance(name, tree_info.tree_type,
                                      world.pos, world.rot, scale,
                                      NumberOr(Lower(name), <<"s", "t", "a", "g", "e">>, tree_info.stages),
                                      NumberOr(Lower(name), <<"v", "a", "r">>, 1),
                                      elem, parent) >>
                 ELSE <<>>)
            ELSE <<>>
        \* the rest of the call once the three vectors are parsed
        placed(trans, rot, scale) ==
            IF Len(trans) < 3 \/ Len(rot) < 3 \/ Len(scale) < 3
            THEN [entered EXCEPT !.raised = "IndexError"]
            ELSE With(multiply_matrices(parent_matrix,
                          transform_matrix(trans[1], trans[2], trans[3],
                                           rot[1], rot[2], rot[3],
                                           scale[1], scale[2], scale[3])),
                      LAMBDA world_matrix :
                      ScanChildren(doc, filter,
                          [entered EXCEPT !.trees =
                              @ \o found(extract_world_transform(world_matrix), scale)],
                          doc.kids[elem], elem, world_matrix, inside))
    IN  IF st.raised # "" THEN st
        ELSE placed(parse_vector(Attr(doc.nodes[elem], "translation", None),
                                 <<Zero, Zero, Zero>>),
                    parse_vector(Attr(doc.nodes[elem], "rotation", None),
                                 <<Zero, Zero, Zero>>),
                    parse_vector(Attr(doc.nodes[elem], "scale", None),
                                 <<One, One, One>>))

\* for child in elem: scan_node(child, elem, world_matrix, in_tree_parent)
\* when the child's tag is one the scan descends into
ScanChildren(doc, filter, st, children, elem, world_matrix, in_tree_parent) ==
    IF children = <<>> \/ st.raised # "" THEN st
    ELSE ScanChildren(doc, filter,
            IF Descends(doc.nodes[Head(children)].tag)
            THEN scan_node(doc, filter, st, Head(children), elem, world_matrix,
                           in_tree_parent)
            ELSE st,
            Tail(children), elem, world_matrix, in_tree_parent)

\* for child in scene: scan_node(child, scene, identity, parent_name is None)
RECURSIVE ScanScene(_, _, _, _)
ScanScene(doc, filter, st, children) ==
    IF children = <<>> \/ st.raised # "" THEN st
    ELSE ScanScene(doc, filter,
                   scan_node(doc, filter, st, Head(children), 0, identity,
                             filter = None),
                   Tail(children))

\* find_trees(parent_name) on the extractor: the scan state it ends in.  A
\* document without <Scene> (no element 0) is not scanned.
find_trees(doc, filter, parents) ==
    IF 0 \notin DOMAIN doc.kids THEN ScanState(<<>>, parents)
    ELSE ScanScene(doc, filter, ScanState(<<>>, parents), doc.kids[0])

\* A variant that takes every child off the parent of a tree.
RECURSIVE remove_trees_siblings(_, _)
remove_trees_siblings(found, st) ==
    IF found = <<>> THEN st
    ELSE remove_trees_siblings(Tail(found),
             IF /\ Head(found).element # NoElement /\ Head(found).parent # NoElement
                /\ Head(found).element \in Range(st.kids[Head(found).parent])
             THEN [kids |-> [st.kids EXCEPT ![Head(found).parent] = <<>>],
                   removed |-> st.removed + 1]
             ELSE st)

\* A variant that stops after the first tree.
remove_trees_first(found, st) ==
    IF found = <<>> THEN st
    ELSE IF /\ Head(found).element # NoElement /\ Head(found).parent # NoElement
            /\ Head(found).element \in Range(st.kids[Head(found).parent])
    THEN [kids |-> [st.kids EXCEPT ![Head(found).parent] =
                        SelectSeq(@, LAMBDA e : e # Head(found).element)],
          removed |-> st.removed + 1]
    ELSE st

\* remove_trees: parent.remove(element) for every tree whose element is
\* still a child of its parent; [kids, removed]
RECURSIVE remove_trees(_, _)
remove_trees(found, st) ==
    IF found = <<>> THEN st
    ELSE LET tree == Head(found)
             there == /\ tree.element # NoElement /\ tree.parent # NoElement
                      /\ tree.element \in Range(st.kids[tree.parent])
         IN  remove_trees(Tail(found),
                 IF there
                 THEN [kids |-> [st.kids EXCEPT ![tree.parent] =
                                    SelectSeq(@, LAMBDA e : e # tree.element)],
                       removed |-> st.removed + 1]
                 ELSE st)

-----------------------------------------------------------------------------
(* generate_treeplant_xml *)

\* the str of a string kept as a tuple of characters
RECURSIVE Str(_)
Str(s) == IF s = <<>> THEN "" ELSE Head(s) \o Str(Tail(s))

\* " ".join(attrs)
RECURSIVE JoinBlank(_)
JoinBlank(attrs) ==
    IF attrs = <<>> THEN ""
    ELSE IF Len(attrs) = 1 THEN attrs[1]
    ELSE attrs[1] \o " " \o JoinBlank(Tail(attrs))

\* A variant of the final-stage test with a strict comparison.
AtFinalStageStrict(growth_state, top) == growth_state > top

\* tree.growth_state >= max_stage
AtFinalStage(growth_state, top) == growth_state >= top

\* A variant that writes variationIndex whenever the index is above 0.
WritesVariationAlways(variation_index) == variation_index > 0

\* tree.variation_index != 1
WritesVariation(variation_index) == variation_index # 1

\* The attribute list of one <tree>.
TreeAttrs(tree, loader_set, types) ==
    LET pos == Fmt4(tree.x) \o " " \o Fmt4(tree.y) \o " " \o Fmt4(tree.z)
        rot == Fmt4(tree.rx) \o " " \o Fmt4(tree.ry) \o " " \o Fmt4(tree.rz)
        top == IF loader_set THEN get_max_stage(types, tree.tree_type)
               ELSE MaxStagesGet(tree.tree_type)
    IN  << "treeType=\"" \o Str(Upper(tree.tree_type)) \o "\"",
           "position=\"" \o pos \o "\"",
           "rotation=\"" \o rot \o "\"",
           "growthStateI=\"" \o ToString(tree.growth_state) \o "\"" >>
        \o ( IF WritesVariation(tree.variation_index)
             THEN << "variationIndex=\"" \o ToString(tree.variation_index) \o "\"" >>
             ELSE <<>> )
        \o << IF AtFinalStage(tree.growth_state, top)
              THEN "isGrowing=\"false\"" ELSE "isGrowing=\"true\"" >>
        \o << "splitShapeFileId=\"-1\"" >>

\* generate_treeplant_xml: one record per tree between the <treePlant>
\* tags, as [attrs, text]
generate_treeplant_xml(found, loader_set, types) ==
    [i \in 1..Len(found) |->
        LET attrs == TreeAttrs(found[i], loader_set, types)
        IN  [attrs |-> attrs,
             text |-> "    <tree " \o JoinBlank(attrs) \o "/>"]]
-----------------------------------------------------------------------------
(* The conversion run on an i3d: find_trees, generate_treeplant_xml,        *)
(* remove_trees, and find_trees again on the modified document.            *)

\* The tree type sources main is run with (None: without --tree-types).
TreeTypeSources == {None, <<"c", "f", "g", "/", "a", ".", "x", "m", "l">>}

\* _build_file_id_map on the <Files> of the document, evaluated once per
\* catalog that main can hand to the extractor
KnownCatalogs ==
    {EmptyCatalog} \cup
    {load_from_xml(EmptyCatalog, s, PathParent(s)).types : s \in TreeTypeSources \ {None}}

RECURSIVE FileMapsOf(_)
FileMapsOf(keys) ==
    IF keys = {} THEN <<>>
    ELSE LET k == CHOOSE x \in keys : TRUE
         IN  (k :> _build_file_id_map(I3dFiles, k[1], k[2])) @@ FileMapsOf(keys \ {k})

FileMaps == FileMapsOf(BOOLEAN \X KnownCatalogs)

BuildFileIdMap(files, loader_set, types) ==
    IF files = I3dFiles /\ types \in KnownCatalogs
    THEN FileMaps[<<loader_set, types>>]
    ELSE _build_file_id_map(files, loader_set, types)

FindTrees ==
    /\ pc \in {"scan", "removed"}
    /\ \E map \in {BuildFileIdMap(file_elems, tree_types_loaded, tree_types)} :
       \E st \in {find_trees([nodes |-> nodes, kids |-> childrenOf, map |-> map],
                             parent_name, tree_parents)} :
           /\ file_id_to_tree_type' = map
           /\ trees' = st.trees
           /\ tree_parents' = st.tree_parents
           /\ visited' = st.visited
           /\ findRet' = IF st.raised # "" THEN Raise(st.raised)
                         ELSE Returned(Len(st.trees))
           /\ pc' = IF st.raised # "" THEN "aborted"
                    ELSE IF pc = "scan" THEN "found" ELSE "rescanned"
    /\ UNCHANGED <<catalogVars, detectVars, lookupVars, nodes, childrenOf,
                   parent_name, file_elems,
                   lines, removed>>

\* main: "No trees found!", return 1
NoTreesFound ==
    /\ pc = "found"
    /\ trees = <<>>
    /\ pc' = "done"
    /\ UNCHANGED <<catalogVars, detectVars, lookupVars, sceneVars>>

GenerateTreeplantXml ==
    /\ pc = "found"
    /\ trees # <<>>
    /\ lines' = generate_treeplant_xml(trees, tree_types_loaded, tree_types)
    /\ pc' = "written"
    /\ UNCHANGED <<catalogVars, detectVars, lookupVars, nodes, childrenOf, parent_name,
                   file_elems, file_id_to_tree_type, trees, tree_parents, visited,
                   findRet,
                   removed>>

RemoveTrees ==
    /\ pc = "written"
    /\ \E st \in {remove_trees(trees, [kids |-> childrenOf, removed |-> 0])} :
           /\ childrenOf' = st.kids
           /\ removed' = st.removed
    /\ pc' = "removed"
    /\ UNCHANGED <<catalogVars, detectVars, lookupVars, nodes, parent_name,
                   file_elems, file_id_to_tree_type, trees, tree_parents, visited,
                   findRet,
                   lines>>

\* The catalog as main leaves it: nothing loaded, or the result of
\* --tree-types source.
CatalogFrom(source) ==
    IF source = None THEN NoCatalog
    ELSE \E r \in {load_from_xml(EmptyCatalog, source, PathParent(source))} :
             /\ tree_types = r.types
             /\ loadLog = << [op |-> "load_from_xml", path |-> source,
                              calls |-> r.calls] >>
             /\ loadRet = r.ret
             /\ tree_types_loaded = (r.ret.value > 0)

\* The documents: every scene of at most MaxNodes elements, and the
\* document without a <Scene>.
InitWalk ==
    /\ pc = "scan"
    /\ \E source \in TreeTypeSources : CatalogFrom(source)
    /\ NoDetect
    /\ NoLookup
    /\ \/ \E n \in 0..MaxNodes :
            /\ nodes \in [1..n -> NodeKinds]
            /\ \E par \in ParentVectors(n) :
                  /\ DocumentOrder(par)
                  /\ childrenOf = KidsOf(par)
       \/ nodes = <<>> /\ childrenOf = <<>>
    /\ parent_name \in ParentNames
    /\ file_elems = I3dFiles
    /\ file_id_to_tree_type = <<>>
    /\ trees = <<>>
    /\ tree_parents = <<>>
    /\ visited = <<>>
    /\ findRet = Returned(0)
    /\ lines = <<>>
    /\ removed = 0

NextWalk ==
    \/ FindTrees
    \/ NoTreesFound
    \/ GenerateTreeplantXml
    \/ RemoveTrees

SpecWalk == InitWalk /\ [][NextWalk]_vars

-----------------------------------------------------------------------------
(* generate_treeplant_xml on instance lists: every list of at most MaxTrees *)
(* of the instances below, with and without a catalog.                     *)

MaxTrees == 2

EmitTypes == { <<"o", "a", "k">>, <<"l", "o", "d", "g", "e", "p", "o", "l", "e", "P", "i", "n", "e">>, <<"a", "s", "p", "e", "n">> }
EmitStages == {0, 3, 5, 6}
EmitVariations == {0, 1, 2}

EmitInstances ==
    { TreeInstance(<<"t", "r", "e", "e", "1">>, ty, <<Int2Num(15), Zero, Int2Num(20)>>,
                   <<Minus(Zero), Int2Num(45), Minus(Zero)>>, <<One, One, One>>,
                   g, v, NoElement, NoElement) :
        ty \in EmitTypes, g \in EmitStages, v \in EmitVariations }

RECURSIVE ListsOf(_, _)
ListsOf(S, n) ==
    IF n = 0 THEN {<<>>}
    ELSE ListsOf(S, n - 1) \cup {Append(l, x) : l \in ListsOf(S, n - 1), x \in S}

\* generate_treeplant_xml(trees, output_path, loader) called on the list
Emit ==
    /\ pc = "emit"
    /\ lines' = generate_treeplant_xml(trees, tree_types_loaded, tree_types)
    /\ pc' = "written"
    /\ UNCHANGED <<catalogVars, detectVars, lookupVars, nodes, childrenOf, parent_name,
                   file_elems, file_id_to_tree_type, trees, tree_parents, visited,
                   findRet,
                   removed>>

InitEmit ==
    /\ pc = "emit"
    /\ \E source \in TreeTypeSources : CatalogFrom(source)
    /\ NoDetect
    /\ NoLookup
    /\ nodes = <<>>
    /\ childrenOf = <<>>
    /\ parent_name = None
    /\ file_elems = <<>>
    /\ file_id_to_tree_type = <<>>
    /\ trees \in ListsOf(EmitInstances, MaxTrees)
    /\ tree_parents = <<>>
    /\ visited = <<>>
    /\ findRet = Returned(Len(trees))
    /\ lines = <<>>
    /\ removed = 0

NextEmit == Emit

SpecEmit == InitEmit /\ [][NextEmit]_vars
-----------------------------------------------------------------------------
(* _build_file_id_map on documents of at most MaxFiles <File> elements,     *)
(* without a catalog and with each of the catalogs below.                  *)

MaxFiles == 2

\* a file of the registered type oak whose base name has no type word
Sapling == I3dFile(<<"7">>, <<"$", "d", "a", "t", "a", "/", "m", "a", "p", "s", "/", "t", "r", "e", "e", "s", "/", "o", "a", "k", "/", "s", "a", "p", "l", "i", "n", "g", "_", "s", "t", "a", "g", "e", "0", "1", ".", "i", "3", "d">>)
\* a second <File> with the fileId of oak_stage05.i3d
AspenAgain == I3dFile(<<"1">>, <<"$", "d", "a", "t", "a", "/", "m", "a", "p", "s", "/", "t", "r", "e", "e", "s", "/", "a", "s", "p", "e", "n", "/", "a", "s", "p", "e", "n", "_", "s", "t", "a", "g", "e", "0", "3", ".", "i", "3", "d">>)

FileKinds == Range(I3dFiles) \cup {Sapling, AspenAgain}

\* <treeTypes> with an oak whose first stage is the sapling file
SaplingDoc ==
    TreeTypesDoc(<< TreeType(<<"o", "a", "k">>,
                        << Stage(<<"$", "d", "a", "t", "a", "/", "m", "a", "p", "s", "/", "t", "r", "e", "e", "s", "/", "o", "a", "k", "/", "s", "a", "p", "l", "i", "n", "g", "_", "s", "t", "a", "g", "e", "0", "1", ".", "i", "3", "d">>),
                           Stage(<<"$", "d", "a", "t", "a", "/", "m", "a", "p", "s", "/", "t", "r", "e", "e", "s", "/", "o", "a", "k", "/", "o", "a", "k", "_", "s", "t", "a", "g", "e", "0", "2", ".", "i", "3", "d">>) >>) >>)

\* the catalog load_from_xml builds from a parsed document
CatalogOf(root) ==
    LoadTypes(FindAll(TreeTypesElem(root), "treeType"), None,
              [types |-> EmptyCatalog, count |-> 0])

FileMapCatalogs ==
    { [types |-> EmptyCatalog, count |-> 0],
      CatalogOf(FileAt(<<"c", "f", "g", "/", "a", ".", "x", "m", "l">>).root),
      CatalogOf(SaplingDoc) }

\* self._build_file_id_map()
BuildMap ==
    /\ pc = "files"
    /\ file_id_to_tree_type' =
           _build_file_id_map(file_elems, tree_types_loaded, tree_types)
    /\ pc' = "mapped"
    /\ UNCHANGED <<catalogVars, detectVars, lookupVars, nodes, childrenOf, parent_name,
                   file_elems, trees, tree_parents, visited, findRet, lines,
                   removed>>

InitFileMap ==
    /\ pc = "files"
    /\ \E catalog \in FileMapCatalogs :
          /\ tree_types = catalog.types
          /\ loadRet = Returned(catalog.count)
          /\ tree_types_loaded = (catalog.count > 0)
    /\ loadLog = <<>>
    /\ NoDetect
    /\ NoLookup
    /\ nodes = <<>>
    /\ childrenOf = <<>>
    /\ parent_name = None
    /\ file_elems \in ListsOf(FileKinds, MaxFiles)
    /\ file_id_to_tree_type = <<>>
    /\ trees = <<>>
    /\ tree_parents = <<>>
    /\ visited = <<>>
    /\ findRet = Returned(0)
    /\ lines = <<>>
    /\ removed = 0

NextFileMap == BuildMap

SpecFileMap == InitFileMap /\ [][NextFileMap]_vars
-----------------------------------------------------------------------------
(* The catalog lookups, get_max_stage and find_stage_and_variation, on the  *)
(* catalogs left by two load_from_xml calls and on the catalog of the      *)
(* sapling document, for the type names and filenames below.               *)

LookupCatalogs ==
    { load_from_xml(load_from_xml(EmptyCatalog, p, PathParent(p)).types,
                    q, PathParent(q)).types : p \in XmlPaths, q \in XmlPaths }
    \cup { CatalogOf(SaplingDoc).types }

\* registered in some catalog (in either case), in the table only, in neither
LookupNames == { <<"o", "a", "k">>, <<"O", "A", "K">>, <<"P", "i", "n", "e">>, <<"a", "s", "p", "e", "n">>, <<"l", "o", "d", "g", "e", "p", "o", "l", "e", "P", "i", "n", "e">>, <<"f", "i", "r">>, <<>> }

\* filenames: a base name of one variation, of a later one in other case,
\* one contained in several, one contained in none, and the empty one
LookupFiles ==
    { <<"$", "d", "a", "t", "a", "/", "m", "a", "p", "s", "/", "t", "r", "e", "e", "s", "/", "o", "a", "k", "/", "o", "a", "k", "_", "s", "t", "a", "g", "e", "0", "2", ".", "i", "3", "d">>, <<"x", "/", "O", "A", "K", "2", "B", ".", "i", "3", "d">>, <<"x", "/", "o", "a", "k", "2", ".", "i", "3", "d">>,
      <<"o", "a", "k">>, <<"t", "/", "p", "2", ".", "i", "3", "d">>, <<"n", "o", "n", "e", "_", "s", "t", "a", "g", "e", "4", "_", "v", "a", "r", "3", ".", "i", "3", "d">>, <<>> }

\* loader.get_max_stage(name)
GetMaxStage(name) ==
    /\ pc = "lookup"
    /\ qName' = name
    /\ qResult' = [op |-> "get_max_stage", value |-> get_max_stage(tree_types, name)]
    /\ pc' = "answered"
    /\ UNCHANGED <<catalogVars, detectVars, qFile, sceneVars>>

\* loader.find_stage_and_variation(tree_type_name, filename)
FindStageAndVariation(tree_type_name, filename) ==
    /\ pc = "lookup"
    /\ qName' = tree_type_name
    /\ qFile' = filename
    /\ qResult' = [op |-> "find_stage_and_variation",
                   value |-> find_stage_and_variation(tree_types, tree_type_name,
                                                      filename)]
    /\ pc' = "answered"
    /\ UNCHANGED <<catalogVars, detectVars, sceneVars>>

InitLookup ==
    /\ pc = "lookup"
    /\ tree_types \in LookupCatalogs
    /\ loadLog = <<>>
    /\ loadRet = Returned(Cardinality(DOMAIN tree_types))
    /\ tree_types_loaded = (DOMAIN tree_types # {})
    /\ NoDetect
    /\ NoLookup
    /\ NoScene

NextLookup ==
    \/ \E name \in LookupNames : GetMaxStage(name)
    \/ \E name \in LookupNames : \E filename \in LookupFiles :
          FindStageAndVariation(name, filename)

SpecLookup == InitLookup /\ [][NextLookup]_vars

-----------------------------------------------------------------------------
(* Properties of generate_treeplant_xml *)

IsGrowingFalse == "isGrowing=\"false\""
IsGrowingTrue == "isGrowing=\"true\""

\* The max stage of the type of a tree: the stage count of the registered
\* descriptor when a catalog is passed and holds the type, else the value
\* of the fallback table, else 5.
ExpectedMaxStage(tree) ==
    LET key == Upper(tree.tree_type)
        rows == {i \in 1..Len(MAX_STAGES) : MAX_STAGES[i][1] = key}
    IN  IF tree_types_loaded /\ key \in DOMAIN tree_types
        THEN Len(tree_types[key].stages)
        ELSE IF rows # {} THEN MAX_STAGES[CHOOSE i \in rows : TRUE][2]
        ELSE 5

\* The places of the isGrowing attributes in record i.
GrowingAt(i) ==
    {k \in 1..Len(lines[i].attrs) :
        lines[i].attrs[k] \in {IsGrowingFalse, IsGrowingTrue}}

\* C3: every record written has exactly one isGrowing attribute; it is
\* "false" exactly when the growth stage of the instance is at least the max
\* stage of its type (from the catalog when one is passed, from the fallback
\* table with default 5 otherwise) and "true" otherwise.
C3_GrowingIffBelowMaxStage ==
    pc = "written" =>
        /\ Len(lines) = Len(trees)
        /\ \A i \in 1..Len(trees) :
              /\ Cardinality(GrowingAt(i)) = 1
              /\ \A k \in GrowingAt(i) :
                    lines[i].attrs[k] =
                        IF trees[i].growth_state >= ExpectedMaxStage(trees[i])
                        THEN IsGrowingFalse ELSE IsGrowingTrue

\* C3 witness: with the catalog passed, an oak at stage 3 (the last of the
\* 3 stages registered, below the 5 of the fallback table) is written as not
\* growing, next to a record that is growing.
C3_Witness ==
    /\ pc = "written"
    /\ tree_types_loaded
    /\ \E i, j \in 1..Len(trees) :
          /\ trees[i].tree_type = <<"o", "a", "k">>
          /\ trees[i].growth_state = 3
          /\ IsGrowingFalse \in Range(lines[i].attrs)
          /\ IsGrowingTrue \in Range(lines[j].attrs)

\* The text of a type name in upper case, letter by letter.
UpperText(tree_type) ==
    CASE tree_type = <<"o", "a", "k">> -> "OAK"
      [] tree_type = <<"l", "o", "d", "g", "e", "p", "o", "l", "e", "P", "i", "n", "e">> -> "LODGEPOLEPINE"
      [] tree_type = <<"a", "s", "p", "e", "n">> -> "ASPEN"
      [] tree_type = <<"p", "i", "n", "u", "s", "S", "y", "l", "v", "e", "s", "t", "r", "i", "s">> -> "PINUSSYLVESTRIS"

VariationAttr(v) == "variationIndex=\"" \o ToString(v) \o "\""

VariationAttrs == {VariationAttr(v) : v \in 0..9}

\* C6: one record per instance, in input order; record i carries the type of
\* instance i in upper case, its growth stage as an integer and
\* splitShapeFileId="-1"; it has a variationIndex attribute (with the
\* instance's index) if and only if that index is not 1.
C6_OneRecordPerInstance ==
    pc = "written" =>
        /\ Len(lines) = Len(trees)
        /\ \A i \in 1..Len(trees) :
              LET attrs == lines[i].attrs
                  tree == trees[i]
              IN  /\ attrs[1] = "treeType=\"" \o UpperText(tree.tree_type) \o "\""
                  /\ attrs[4] = "growthStateI=\"" \o ToString(tree.growth_state) \o "\""
                  /\ attrs[Len(attrs)] = "splitShapeFileId=\"-1\""
                  /\ (Range(attrs) \cap VariationAttrs # {}) <=> (tree.variation_index # 1)
                  /\ Range(attrs) \cap VariationAttrs \subseteq
                         {VariationAttr(tree.variation_index)}

\* C6 witness: two instances of different types written in their order,
\* the first with variation 1 (no attribute), the second with variation 0.
C6_Witness ==
    /\ pc = "written"
    /\ Len(trees) = 2
    /\ trees[1].tree_type = <<"o", "a", "k">> /\ trees[1].variation_index = 1
    /\ trees[2].tree_type = <<"a", "s", "p", "e", "n">> /\ trees[2].variation_index = 0
    /\ Range(lines[1].attrs) \cap VariationAttrs = {}
    /\ VariationAttr(0) \in Range(lines[2].attrs)
    /\ lines[1].attrs[1] = "treeType=\"OAK\""
    /\ lines[2].attrs[1] = "treeType=\"ASPEN\""

-----------------------------------------------------------------------------
(* Properties of find_trees *)

\* the parent of element e in the document
ParentOf(e) == CHOOSE p \in DOMAIN childrenOf : e \in Range(childrenOf[p])

RECURSIVE AncestorsOrSelf(_)
AncestorsOrSelf(e) == IF e = 0 THEN {} ELSE {e} \cup AncestorsOrSelf(ParentOf(e))

\* e is a reference node whose referenceId is in the file map
Resolvable(e) ==
    /\ nodes[e].tag = "ReferenceNode"
    /\ Truthy(Attr(nodes[e], "referenceId", None))
    /\ Attr(nodes[e], "referenceId", None) \in DOMAIN file_id_to_tree_type

Collected(e) == \E i \in 1..Len(trees) : trees[i].element = e

\* e or one of its ancestors below <Scene> has the filter name
InNamedSubtree(e) ==
    \E a \in AncestorsOrSelf(e) :
        Lower(Attr(nodes[a], "name", <<>>)) = Lower(parent_name)

\* C4: with a filter name, a find_trees that has returned has collected a
\* resolvable reference node if and only if the node or one of its ancestors
\* below <Scene> has the filter name (ignoring case).
C4_CollectedIffInNamedSubtree ==
    (pc = "found" /\ Truthy(parent_name)) =>
        \A e \in 1..Len(nodes) :
            Resolvable(e) => (Collected(e) <=> InNamedSubtree(e))

\* C5: the scene <groupA translation="5 0 0"> with the child <tree1
\* translation="10 0 20" rotation="0 45 0"> referencing oak_stage05.i3d,
\* scanned without filter and without catalog, is written as the one record
\* of the example.
C5_EndToEndRecord ==
    ( /\ pc = "written"
      /\ parent_name = None
      /\ ~tree_types_loaded
      /\ nodes = <<GroupA, Tree1>>
      /\ childrenOf[0] = <<1>> /\ childrenOf[1] = <<2>> )
    => /\ Len(lines) = 1
       /\ lines[1].attrs = << "treeType=\"OAK\"",
                              "position=\"15.0000 0.0000 20.0000\"",
                              "rotation=\"0.0000 45.0000 0.0000\"",
                              "growthStateI=\"5\"",
                              IsGrowingFalse,
                              "splitShapeFileId=\"-1\"" >>

\* C9: find_trees never ends in an exception, whatever the translation,
\* rotation and scale texts of the elements.
C9_FindTreesCompletes == findRet.raised = ""

\* C10: every instance find_trees has produced has a growth stage and a
\* variation index of at least 1.
C10_StageAndVariationFromOne ==
    \A i \in 1..Len(trees) :
        trees[i].growth_state >= 1 /\ trees[i].variation_index >= 1
-----------------------------------------------------------------------------
(* Properties of scan_node's checks and of the traversal *)

\* find_trees collects at element e: no filter, or e is in the named subtree
Collecting(e) == ~Truthy(parent_name) \/ InNamedSubtree(e)

\* the name of element e matches an entry of TREE_PATTERNS
NameMatches(e) == DetectTreeType(Attr(nodes[e], "name", <<>>)).index # 0

\* C11: the name check is applied to every visited element, whatever the
\* outcome of the reference check on it: after a find_trees that returned,
\* every visited element whose name matches the classifier, at which the
\* scan is collecting, has yielded an instance.
C11_NameCheckOnEveryVisitedNode ==
    pc = "found" =>
        \A e \in Range(visited) : (NameMatches(e) /\ Collecting(e)) => Collected(e)

\* the elements 1..n in document order, which is depth-first pre-order
Preorder(n) == [e \in 1..n |-> e]

\* C12: a find_trees that returned has called scan_node on every element
\* below <Scene> exactly once, in depth-first pre-order.
C12_VisitsEveryElementInPreorder ==
    pc = "found" => visited = Preorder(Len(nodes))

-----------------------------------------------------------------------------
(* Properties of _build_file_id_map *)

\* the path has the tree directory marker and the extension
IsTreeAsset(filename) == Contains(filename, <<"/", "t", "r", "e", "e", "s", "/">>) /\ EndsWith(filename, <<".", "i", "3", "d">>)

\* the registered types that have a variation with the base name of filename
OwnersOf(types, filename) ==
    {k \in DOMAIN types :
        \E s \in 1..Len(types[k].stages) :
            \E v \in 1..Len(types[k].stages[s].variations) :
                Lower(Stem(types[k].stages[s].variations[v].filename))
                    = Lower(Stem(filename))}

\* C13: the map holds entries for tree asset files only; with a catalog
\* loaded it holds one for every tree asset file that belongs to a
\* registered type, whatever its base name; without a catalog it holds one
\* for every tree asset file whose base name the classifier matches.
C13_FileMapResolvesViaCatalog ==
    pc = "mapped" =>
        /\ \A id \in DOMAIN file_id_to_tree_type :
              \E i \in 1..Len(file_elems) :
                  file_elems[i].fileId = id /\ IsTreeAsset(file_elems[i].filename)
        /\ \A i \in 1..Len(file_elems) :
              IsTreeAsset(file_elems[i].filename) =>
                  IF tree_types_loaded
                  THEN OwnersOf(tree_types, file_elems[i].filename) # {}
                           => file_elems[i].fileId \in DOMAIN file_id_to_tree_type
                  ELSE DetectTreeType(Stem(file_elems[i].filename)).index # 0
                           => file_elems[i].fileId \in DOMAIN file_id_to_tree_type
-----------------------------------------------------------------------------
(* Properties of the catalog lookups *)

\* variation v of stage s of desc matches the base name of filename: same
\* base name ignoring case, or the base name occurs in its filename
VariationMatches(desc, s, v, filename) ==
    \/ Lower(Stem(desc.stages[s].variations[v].filename)) = Lower(Stem(filename))
    \/ Contains(Lower(desc.stages[s].variations[v].filename), Lower(Stem(filename)))

\* the (stage, variation) positions of desc
Positions(desc) ==
    UNION { {<<s, v>> : v \in 1..Len(desc.stages[s].variations)} :
              s \in 1..Len(desc.stages) }

\* C14: for a registered type, find_stage_and_variation returns the stage
\* index and 1-based variation index of the first variation, in stage order
\* then variation order, that matches the base name of the filename, and
\* (max_stage, 1) when none matches; the stage is within 1..max_stage.
C14_FirstMatchingVariation ==
    (qResult.op = "find_stage_and_variation" /\ Upper(qName) \in DOMAIN tree_types) =>
        LET desc == tree_types[Upper(qName)]
            hits == {p \in Positions(desc) : VariationMatches(desc, p[1], p[2], qFile)}
            r == qResult.value
        IN  /\ r.stage \in 1..Len(desc.stages)
            /\ hits = {} => r = [stage |-> Len(desc.stages), variation |-> 1]
            /\ hits # {} =>
                  \E p \in hits :
                      /\ r = [stage |-> desc.stages[p[1]].stage_index,
                              variation |-> p[2]]
                      /\ \A q \in hits :
                            p[1] < q[1] \/ (p[1] = q[1] /\ p[2] <= q[2])

\* C14 witness: in a type of 5 stages the second variation of stage 2,
\* t/oak2b.i3d, is found for the base name OAK2B.
C14_Witness ==
    /\ qResult.op = "find_stage_and_variation"
    /\ Upper(qName) \in DOMAIN tree_types
    /\ Len(tree_types[Upper(qName)].stages) = 5
    /\ qFile = <<"x", "/", "O", "A", "K", "2", "B", ".", "i", "3", "d">>
    /\ qResult.value = [stage |-> 2, variation |-> 2]

\* the value of the hardcoded table for an uppercased name, 5 without entry
TableValue(key) ==
    IF \E i \in 1..Len(MAX_STAGES) : MAX_STAGES[i][1] = key
    THEN MAX_STAGES[CHOOSE i \in 1..Len(MAX_STAGES) : MAX_STAGES[i][1] = key][2]
    ELSE 5

\* C15: every registered descriptor has at least one stage and the stage
\* indices 1..max_stage in order; get_max_stage(name) is the stage count of
\* the descriptor registered under the uppercased name when there is one,
\* else the table's value for the uppercased name, else 5, and is the same
\* for the name in lower and in upper case.
C15_MaxStageOfName ==
    /\ \A k \in DOMAIN tree_types :
          /\ Len(tree_types[k].stages) >= 1
          /\ \A i \in 1..Len(tree_types[k].stages) :
                tree_types[k].stages[i].stage_index = i
    /\ qResult.op = "get_max_stage" =>
          /\ qResult.value =
                IF Upper(qName) \in DOMAIN tree_types
                THEN Len(tree_types[Upper(qName)].stages)
                ELSE TableValue(Upper(qName))
          /\ get_max_stage(tree_types, Lower(qName)) = qResult.value
          /\ get_max_stage(tree_types, Upper(qName)) = qResult.value

\* C15 witness: oak is registered with 3 stages, the table has 5 for OAK,
\* and get_max_stage("oak") returned 3.
C15_Witness ==
    /\ qResult.op = "get_max_stage"
    /\ qName = <<"o", "a", "k">>
    /\ <<"O", "A", "K">> \in DOMAIN tree_types
    /\ Len(tree_types[<<"O", "A", "K">>].stages) = 3
    /\ TableValue(<<"O", "A", "K">>) = 5
    /\ qResult.value = 3
-----------------------------------------------------------------------------
(* Properties of remove_trees *)

\* e is the element of a collected tree whose parent is p
TreeElementOf(p, e) ==
    \E i \in 1..Len(trees) : trees[i].element = e /\ trees[i].parent = p

\* C17: the step that runs remove_trees is taken after find_trees has
\* returned and the records are written; it leaves the instance list (its
\* length, its order and every field of every instance), the elements and
\* the records as they are, and takes from each element's children exactly
\* the elements of the collected trees; no other step changes the children.
C17_RemovalKeepsInstances ==
    [][ /\ childrenOf' # childrenOf => (pc = "written" /\ pc' = "removed")
        /\ (pc # "removed" /\ pc' = "removed") =>
              /\ pc = "written"
              /\ findRet = Returned(Len(trees))
              /\ Len(lines) = Len(trees)
              /\ trees' = trees
              /\ nodes' = nodes
              /\ lines' = lines
              /\ DOMAIN childrenOf' = DOMAIN childrenOf
              /\ \A p \in DOMAIN childrenOf :
                    childrenOf'[p] =
                        SelectSeq(childrenOf[p], LAMBDA e : ~TreeElementOf(p, e)) ]_vars

\* C17 witness: remove_trees has run on one collected tree, whose parent
\* keeps another child.
C17_Witness ==
    /\ pc = "removed"
    /\ removed = 1
    /\ Len(trees) = 1
    /\ Len(lines) = 1
    /\ trees[1].element \notin Range(childrenOf[trees[1].parent])
    /\ childrenOf[trees[1].parent] # <<>>

\* C18: after find_trees and remove_trees no collected element is a child
\* of its parent and remove_trees has returned the number of instances; a
\* second find_trees with the same filter returns the empty list.
C18_RemovedThenNothingFound ==
    /\ pc = "removed" =>
          /\ removed = Len(trees)
          /\ \A i \in 1..Len(trees) :
                trees[i].element \notin Range(childrenOf[trees[i].parent])
    /\ pc = "rescanned" => (trees = <<>> /\ findRet = Returned(0))

\* C18 witness: the second find_trees has returned after two trees were
\* removed, the second of them, tree1, below the first, the shape scaled by
\* 2 (its record has the position 20 0 40).
C18_Witness ==
    /\ pc = "rescanned"
    /\ removed = 2
    /\ Len(lines) = 2
    /\ lines[2].attrs[2] = "position=\"20.0000 0.0000 40.0000\""
    /\ trees = <<>>
    /\ findRet = Returned(0)
=============================================================================
